---- MODULE Spec2Model ----
(***************************************************************************)
(* Translation of one WebAssembly function body into Cretonne IL:          *)
(* lib/wasm/src/state.rs (TranslationState, ControlStackFrame) and         *)
(* lib/wasm/src/code_translator.rs (translate_operator,                    *)
(* translate_unreachable_operator).                                        *)
(***************************************************************************)
EXTENDS Integers, Sequences, FiniteSets, TLC

\* ------------------------------------------------------------------ bounds
\* Operators fed to translate_operator per function body.
MaxOps == 4
\* Entries of a br_table's depth list.
MaxTable == 1
\* Largest relative depth a branch is given.
MaxRelDepth == 2
\* Functions translated one after the other with the same state.
MaxFunctions == 2
\* Return values of a function signature.
MaxReturns == 2
\* Largest count given to popn and peekn.
MaxCount == 3

\* Width of the machine word the unsigned arithmetic is done in.
UsizeBits == 16
\* Largest positive guard size an environment gives a heap, besides one
\* that exceeds every offset.
MaxGuard == 4

\* Width standing for the 32 bits of a memory offset (u32) and of the
\* offset immediate of a load or store (i32): the arithmetic of
\* get_heap_addr is the same at any width, and at this one every offset can
\* be enumerated.
OffsetBits == 4

u32_max_value == 2 ^ OffsetBits - 1

i32_max_value == 2 ^ (OffsetBits - 1) - 1

\* The casts `as u32` (of a non-negative i64) and `as i32` (of a u32).
as_u32(x) == x % (2 ^ OffsetBits)

as_i32(x) == IF x > i32_max_value THEN x - 2 ^ OffsetBits ELSE x

min(a, b) == IF a < b THEN a ELSE b

\* Offsets of memory accesses used as input: all of them.
Offsets == 0..u32_max_value

\* Guard sizes an environment may give the heap: negative, zero, small,
\* and larger than every offset.
GuardSizes == {-1, 0, 2 ^ OffsetBits} \cup 1..MaxGuard

\* The guard size of the heap when the environment is not told otherwise.
DefaultGuardSize == 4

\* Wasm indices of globals, memories, signatures and functions used as input.
Indices == {0, 1}
\* Immediates of i32.const used as input.
ConstVals == {7}
\* Block types: 0 is EmptyBlock, 1 is a value type.
BlockTypes == {0, 1}

\* ------------------------------------------------------------------ helpers
Range(f) == {f[i] : i \in DOMAIN f}

Last(q) == q[Len(q)]

Front(q) == SubSeq(q, 1, Len(q) - 1)

\* Vec::truncate: keeps the first n elements, does nothing when n >= len.
Truncate(q, n) == IF n >= Len(q) THEN q ELSE SubSeq(q, 1, n)

\* The sequences over S of length 1..n.
SeqsUpTo(S, n) == UNION {[1..k -> S] : k \in 1..n}

\* An absent entry of a HashMap.
None == [tag |-> "None"]

\* -------------------------------------------------------- the IR builder
\* FunctionBuilder and the function it builds. Ebbs, instructions and values
\* are numbered in creation order from 1; 0 stands for "no such entity".
\* An Ebb records its parameters, how many times seal_block was called on
\* it, and whether an instruction has been inserted (pristine) or a
\* terminator (filled).
NewEbb == [params |-> <<>>, sealed |-> 0, pristine |-> TRUE, filled |-> FALSE]

\* The Ebb that create_ebb is about to return.
NextEbb(b) == Len(b.ebbs) + 1

create_ebb(b) == [b EXCEPT !.ebbs = Append(@, NewEbb)]

\* append_ebb_param: a fresh Value becomes the Ebb's next parameter.
append_ebb_param(b, ebb) ==
    [b EXCEPT !.ebbs[ebb].params = Append(@, b.nvalues + 1),
              !.nvalues = @ + 1]

ebb_params(b, ebb) == b.ebbs[ebb].params

seal_block(b, ebb) == [b EXCEPT !.ebbs[ebb].sealed = @ + 1]

switch_to_block(b, ebb) == [b EXCEPT !.position = ebb]

Terminators == {"jump", "return", "trap"}

\* builder.ins().<opcode>: the instruction is appended to the current Ebb.
\* dest is the branch destination (0 if none), table the jump table entries,
\* result the Value defined (0 if none).
ins(b, opcode, dest, args, table, imm, result) ==
    [b EXCEPT !.insts = Append(@, [ebb |-> b.position, opcode |-> opcode,
                                   dest |-> dest, args |-> args,
                                   table |-> table, imm |-> imm,
                                   result |-> result]),
              !.ebbs[b.position].pristine = FALSE,
              !.ebbs[b.position].filled = @ \/ opcode \in Terminators,
              !.nvalues = IF result = 0 THEN @ ELSE result]

\* An instruction with one result; the result is b.nvalues + 1.
ins_value(b, opcode, args, imm) ==
    ins(b, opcode, 0, args, <<>>, imm, b.nvalues + 1)

\* The Inst that the next ins() is about to create.
NextInst(b) == Len(b.insts) + 1

change_jump_destination(b, inst, new_dest) ==
    [b EXCEPT !.insts[inst].dest = new_dest]

\* The instructions that branch to ebb (directly or through a jump table).
predecessors(b, ebb) ==
    {i \in 1..Len(b.insts) :
        b.insts[i].dest = ebb \/ ebb \in Range(b.insts[i].table)}

EntryEbb == 1

ExitEbb == 2

is_unreachable(b) ==
    /\ b.position # EntryEbb
    /\ b.ebbs[b.position].sealed > 0
    /\ predecessors(b, b.position) = {}

is_pristine(b) == b.ebbs[b.position].pristine

\* The instructions of one Ebb in order, without their position in the
\* function-wide creation order.
EbbInsts(b, ebb) == SelectSeq(b.insts, LAMBDA i : i.ebb = ebb)

\* ------------------------------------------------- the environment's answers
\* FuncEnvironment is a trait: the answers below are those of one
\* environment. Global 0 lives in memory, global 1 is a constant.
GlobalIsConst(index) == index = 1

\* Normal-purpose parameters and results of signature / function `index`.
normal_args(index) == index

SigResults(index) == 1 - index

\* ------------------------------------------------------ TranslationState
\* A translation in progress: the fields of TranslationState, the builder
\* it is given, the environment, and whether a panic has ended it.
num_return_values(ty) == IF ty = 0 THEN 0 ELSE 1

Frame(kind, destination, header, branch_inst, n, size) ==
    [kind |-> kind, destination |-> destination, header |-> header,
     branch_inst |-> branch_inst, num_return_values |-> n,
     original_stack_size |-> size, reachable |-> FALSE]

following_code(frame) == frame.destination

br_destination(frame) ==
    IF frame.kind = "Loop" THEN frame.header ELSE frame.destination

is_loop(frame) == frame.kind = "Loop"

is_reachable(frame) == frame.reachable

\* set_reachable on control_stack[i] (1-based here, 0-based in the source).
set_reachable(s, i) == [s EXCEPT !.control_stack[i].reachable = TRUE]

\* A panic (unwrap on None, index out of bounds, panic!, failed assertion).
Abort(s) == [s EXCEPT !.aborted = TRUE]

WithBuilder(s, b) == [s EXCEPT !.builder = b]

push1(s, val) == [s EXCEPT !.stack = Append(@, val)]

pushn(s, vals) == [s EXCEPT !.stack = @ \o vals]

\* peekn: the top n values in push order; the caller checks n <= len first
\* (the slice index panics otherwise).
peekn(s, n) == SubSeq(s.stack, Len(s.stack) - n + 1, Len(s.stack))

\* usize subtraction as compiled without overflow checks. usize is wider
\* than UsizeBits; the outcomes are the same for any width whose largest
\* value exceeds the lengths and counts that occur.
usize_sub(a, b) == (a - b) % (2 ^ UsizeBits)

\* popn: `len - n` panics on overflow when overflow checks are compiled in
\* and wraps otherwise, and truncate to a larger length changes nothing.
popn(s, n) ==
    IF n > Len(s.stack) /\ s.debug_assertions THEN Abort(s)
    ELSE [s EXCEPT !.stack = Truncate(@, usize_sub(Len(@), n))]

\* The state after pop1, peek1, pop2, pop3 and after the slice indexing of
\* peekn; a peek returns Last(s.stack) or peekn(s, n) and leaves the
\* state alone. unwrap() on None and a slice start beyond the length panic
\* in every build.
pop1(s) ==
    IF s.stack = <<>> THEN Abort(s) ELSE [s EXCEPT !.stack = Front(@)]

peek1(s) == IF s.stack = <<>> THEN Abort(s) ELSE s

pop2(s) == LET s1 == pop1(s) IN IF s1.aborted THEN s1 ELSE pop1(s1)

pop3(s) == LET s1 == pop2(s) IN IF s1.aborted THEN s1 ELSE pop1(s1)

peekn_index(s, n) ==
    IF n > Len(s.stack) /\ s.debug_assertions THEN Abort(s)
    ELSE IF usize_sub(Len(s.stack), n) > Len(s.stack) THEN Abort(s)
    ELSE s

push_block(s, following, n) ==
    [s EXCEPT !.control_stack =
        Append(@, Frame("Block", following, 0, 0, n, Len(s.stack)))]

\* Faulty variant: the frame records an empty operand stack.
push_loop_from_empty(s, header, following, n) ==
    [s EXCEPT !.control_stack =
        Append(@, Frame("Loop", following, header, 0, n, 0))]

push_loop(s, header, following, n) ==
    [s EXCEPT !.control_stack =
        Append(@, Frame("Loop", following, header, 0, n, Len(s.stack)))]

\* Faulty variant: the frame records the stack size from before the condition
\* was popped.
push_if_before_pop(s, branch_inst, following, n) ==
    [s EXCEPT !.control_stack =
        Append(@, Frame("If", following, 0, branch_inst, n,
                        Len(s.stack) + 1))]

push_if(s, branch_inst, following, n) ==
    [s EXCEPT !.control_stack =
        Append(@, Frame("If", following, 0, branch_inst, n, Len(s.stack)))]

EmptyCache == [i \in Indices |-> None]

\* Faulty variant: the stacks and depths are reset but the entity caches
\* are kept.
clear_keeping_caches(s) ==
    [s EXCEPT !.stack = <<>>, !.control_stack = <<>>,
              !.phantom_unreachable_stack_depth = 0,
              !.real_unreachable_stack_depth = 0]

clear(s) ==
    [s EXCEPT !.stack = <<>>, !.control_stack = <<>>,
              !.phantom_unreachable_stack_depth = 0,
              !.real_unreachable_stack_depth = 0,
              !.globals = EmptyCache, !.heaps = EmptyCache,
              !.signatures = EmptyCache, !.functions = EmptyCache]

\* The purposes a return value of a signature can have: a WebAssembly
\* result, or a special-purpose value added for the ABI.
Purposes == {"Normal", "Link"}

\* sig.returns.iter().filter(purpose == Normal).count(), where returns is
\* the sequence of the purposes of the signature's return values.
normal_returns(returns) ==
    Cardinality({k \in DOMAIN returns : returns[k] = "Normal"})

\* Faulty variant: the state is cleared but no function frame is pushed.
initialize_without_frame(s, returns, exit_block) == clear(s)

\* Faulty variant: the function frame is pushed without clearing the state.
initialize_without_clear(s, returns, exit_block) ==
    push_block(s, exit_block, normal_returns(returns))

initialize(s, returns, exit_block) ==
    push_block(clear(s), exit_block, normal_returns(returns))

\* ----------------------------------------------------------- entity cache
\* entry(index).or_insert_with(make): the environment is asked only on a
\* miss; every make_* call mints the function's next entity of that kind.
CountCall(s, kind, index) ==
    [s EXCEPT !.environ.calls[kind][index] = @ + 1]

Mint(s, kind) == [s EXCEPT !.builder.entities[kind] = @ + 1]

make_global(s, index) ==
    IF GlobalIsConst(index)
    THEN [tag |-> "Const", val |-> s.builder.nvalues + 1, gv |-> 0]
    ELSE [tag |-> "Memory", val |-> 0, gv |-> s.builder.entities.gv + 1]

\* Faulty variant: make_global is called whether or not the index is cached.
get_global_uncached(s, index) ==
    LET e == make_global(s, index)
        s1 == CountCall(s, "make_global", index)
        s2 == IF e.tag = "Const"
              THEN [s1 EXCEPT !.builder.nvalues = @ + 1]
              ELSE Mint(s1, "gv")
    IN [s2 EXCEPT !.globals[index] = e]

\* The state after get_global; the entry it returns is globals[index] there.
get_global(s, index) ==
    IF s.globals[index] # None THEN s
    ELSE LET e == make_global(s, index)
             s1 == CountCall(s, "make_global", index)
             s2 == IF e.tag = "Const"
                   THEN [s1 EXCEPT !.builder.nvalues = @ + 1]
                   ELSE Mint(s1, "gv")
         IN [s2 EXCEPT !.globals[index] = e]

get_heap(s, index) ==
    IF s.heaps[index] # None THEN s
    ELSE LET s1 == Mint(CountCall(s, "make_heap", index), "heap")
         IN [s1 EXCEPT !.heaps[index] =
                [tag |-> "Heap", heap |-> s1.builder.entities.heap]]

get_indirect_sig(s, index) ==
    IF s.signatures[index] # None THEN s
    ELSE LET s1 == Mint(CountCall(s, "make_indirect_sig", index), "sig")
         IN [s1 EXCEPT !.signatures[index] =
                [tag |-> "Sig", sig |-> s1.builder.entities.sig,
                 num_args |-> normal_args(index)]]

get_direct_func(s, index) ==
    IF s.functions[index] # None THEN s
    ELSE LET s1 == Mint(CountCall(s, "make_direct_func", index), "fref")
         IN [s1 EXCEPT !.functions[index] =
                [tag |-> "Func", fref |-> s1.builder.entities.fref,
                 num_args |-> normal_args(index)]]

\* --------------------------------------------- translate_operator, per arm
\* Each arm maps the state before the operator to the state after it.
\* cs_index: control_stack.len() - 1 - relative_depth as a 1-based index;
\* the arms check it is >= 1 (the subtraction or the indexing panics if not).
cs_index(s, relative_depth) == Len(s.control_stack) - relative_depth

I32Const(s, value) ==
    LET b == ins_value(s.builder, "iconst", <<>>, value)
    IN push1(WithBuilder(s, b), b.nvalues)

Drop(s) ==
    IF Len(s.stack) < 1 THEN Abort(s)
    ELSE popn(s, 1)

\* The binary operators (pop2, one instruction, push1); iadd stands for all.
I32Add(s) ==
    IF Len(s.stack) < 2 THEN Abort(s)
    ELSE LET b == ins_value(s.builder, "iadd", peekn(s, 2), 0)
         IN push1(popn(WithBuilder(s, b), 2), b.nvalues)

Nop(s) == s

Unreachable(s) ==
    LET b == ins(s.builder, "trap", 0, <<>>, <<>>, 0, 0)
    IN [WithBuilder(s, b) EXCEPT !.real_unreachable_stack_depth = 1]

Block(s, ty) ==
    LET next == NextEbb(s.builder)
        b1 == create_ebb(s.builder)
        b2 == IF ty # 0 THEN append_ebb_param(b1, next) ELSE b1
    IN push_block(WithBuilder(s, b2), next, num_return_values(ty))

Loop(s, ty) ==
    LET loop_body == NextEbb(s.builder)
        next == loop_body + 1
        b1 == create_ebb(create_ebb(s.builder))
        b2 == IF ty # 0 THEN append_ebb_param(b1, next) ELSE b1
        b3 == ins(b2, "jump", loop_body, <<>>, <<>>, 0, 0)
        s1 == push_loop(WithBuilder(s, b3), loop_body, next,
                        num_return_values(ty))
    IN WithBuilder(s1, switch_to_block(s1.builder, loop_body))

If(s, ty) ==
    IF Len(s.stack) < 1 THEN Abort(s)
    ELSE LET val == Last(s.stack)
             s1 == popn(s, 1)
             if_not == NextEbb(s1.builder)
             b1 == create_ebb(s1.builder)
             jump_inst == NextInst(b1)
             b2 == ins(b1, "brz", if_not, <<val>>, <<>>, 0, 0)
             b3 == IF ty # 0 THEN append_ebb_param(b2, if_not) ELSE b2
         IN push_if(WithBuilder(s1, b3), jump_inst, if_not,
                    num_return_values(ty))

\* Faulty variant: the values passed to the jump stay on the operand stack.
ElseKeepingArgs(s) ==
    IF Len(s.control_stack) < 1 THEN Abort(s)
    ELSE LET frame == Last(s.control_stack)
             return_count == frame.num_return_values
         IN IF frame.kind # "If" THEN Abort(s)
            ELSE IF return_count > Len(s.stack) THEN Abort(s)
            ELSE LET b1 == ins(s.builder, "jump", frame.destination,
                               peekn(s, return_count), <<>>, 0, 0)
                     else_ebb == NextEbb(b1)
                     b2 == create_ebb(b1)
                     b3 == change_jump_destination(b2, frame.branch_inst,
                                                   else_ebb)
                     b4 == switch_to_block(seal_block(b3, else_ebb), else_ebb)
                 IN WithBuilder(s, b4)

Else(s) ==
    IF Len(s.control_stack) < 1 THEN Abort(s)
    ELSE LET frame == Last(s.control_stack)
             return_count == frame.num_return_values
         IN IF frame.kind # "If" THEN Abort(s)
            ELSE IF return_count > Len(s.stack) THEN Abort(s)
            ELSE LET b1 == ins(s.builder, "jump", frame.destination,
                               peekn(s, return_count), <<>>, 0, 0)
                     s1 == popn(WithBuilder(s, b1), return_count)
                     else_ebb == NextEbb(b1)
                     b2 == create_ebb(b1)
                     b3 == change_jump_destination(b2, frame.branch_inst,
                                                   else_ebb)
                     b4 == switch_to_block(seal_block(b3, else_ebb), else_ebb)
                 IN WithBuilder(s1, b4)

\* Faulty variant: the operand stack is not cut back to the size it had
\* when the frame was pushed.
EndKeepingStack(s) ==
    IF Len(s.control_stack) < 1 THEN Abort(s)
    ELSE LET frame == Last(s.control_stack)
             s1 == [s EXCEPT !.control_stack = Front(@)]
             return_count == frame.num_return_values
         IN IF return_count > Len(s1.stack) THEN Abort(s1)
            ELSE LET b0 == s1.builder
                     b1 == IF ~is_unreachable(b0) \/ ~is_pristine(b0)
                           THEN ins(b0, "jump", following_code(frame),
                                    peekn(s1, return_count), <<>>, 0, 0)
                           ELSE b0
                     b2 == seal_block(
                               switch_to_block(b1, following_code(frame)),
                               following_code(frame))
                     b3 == IF frame.kind = "Loop"
                           THEN seal_block(b2, frame.header) ELSE b2
                 IN [WithBuilder(s1, b3) EXCEPT !.stack =
                        @ \o ebb_params(b3, following_code(frame))]

\* Faulty variant: no jump when the current block is unreachable or
\* pristine, either one.
EndUnlessUnreachableOrPristine(s) ==
    IF Len(s.control_stack) < 1 THEN Abort(s)
    ELSE LET frame == Last(s.control_stack)
             s1 == [s EXCEPT !.control_stack = Front(@)]
             return_count == frame.num_return_values
         IN IF return_count > Len(s1.stack) THEN Abort(s1)
            ELSE LET b0 == s1.builder
                     b1 == IF ~is_unreachable(b0) /\ ~is_pristine(b0)
                           THEN ins(b0, "jump", following_code(frame),
                                    peekn(s1, return_count), <<>>, 0, 0)
                           ELSE b0
                     b2 == seal_block(
                               switch_to_block(b1, following_code(frame)),
                               following_code(frame))
                     b3 == IF frame.kind = "Loop"
                           THEN seal_block(b2, frame.header) ELSE b2
                 IN [WithBuilder(s1, b3) EXCEPT !.stack =
                        Truncate(@, frame.original_stack_size)
                        \o ebb_params(b3, following_code(frame))]

End(s) ==
    IF Len(s.control_stack) < 1 THEN Abort(s)
    ELSE LET frame == Last(s.control_stack)
             s1 == [s EXCEPT !.control_stack = Front(@)]
             return_count == frame.num_return_values
         IN IF return_count > Len(s1.stack) THEN Abort(s1)
            ELSE LET b0 == s1.builder
                     b1 == IF ~is_unreachable(b0) \/ ~is_pristine(b0)
                           THEN ins(b0, "jump", following_code(frame),
                                    peekn(s1, return_count), <<>>, 0, 0)
                           ELSE b0
                     b2 == seal_block(
                               switch_to_block(b1, following_code(frame)),
                               following_code(frame))
                     b3 == IF frame.kind = "Loop"
                           THEN seal_block(b2, frame.header) ELSE b2
                 IN [WithBuilder(s1, b3) EXCEPT !.stack =
                        Truncate(@, frame.original_stack_size)
                        \o ebb_params(b3, following_code(frame))]

\* Faulty variant: the real depth is set one too high.
BrOneTooDeep(s, relative_depth) ==
    LET i == cs_index(s, relative_depth)
    IN IF i < 1 THEN Abort(s)
       ELSE LET s1 == set_reachable(s, i)
                frame == s1.control_stack[i]
                return_count == IF is_loop(frame) THEN 0
                                ELSE frame.num_return_values
            IN IF return_count > Len(s1.stack) THEN Abort(s1)
               ELSE LET b1 == ins(s1.builder, "jump", br_destination(frame),
                                  peekn(s1, return_count), <<>>, 0, 0)
                        s2 == popn(WithBuilder(s1, b1), return_count)
                    IN [s2 EXCEPT !.real_unreachable_stack_depth =
                                      2 + relative_depth]

\* Faulty variant: the jump goes to the code that follows the target frame,
\* whatever its kind, with that frame's return values.
BrToFollowingCode(s, relative_depth) ==
    LET i == cs_index(s, relative_depth)
    IN IF i < 1 THEN Abort(s)
       ELSE LET s1 == set_reachable(s, i)
                frame == s1.control_stack[i]
                return_count == frame.num_return_values
            IN IF return_count > Len(s1.stack) THEN Abort(s1)
               ELSE LET b1 == ins(s1.builder, "jump", following_code(frame),
                                  peekn(s1, return_count), <<>>, 0, 0)
                        s2 == popn(WithBuilder(s1, b1), return_count)
                    IN [s2 EXCEPT !.real_unreachable_stack_depth =
                                      1 + relative_depth]

\* Faulty variant: the jump is emitted but the target frame is not marked
\* reachable.
BrUnmarked(s, relative_depth) ==
    LET i == cs_index(s, relative_depth)
    IN IF i < 1 THEN Abort(s)
       ELSE LET frame == s.control_stack[i]
                return_count == IF is_loop(frame) THEN 0
                                ELSE frame.num_return_values
            IN IF return_count > Len(s.stack) THEN Abort(s)
               ELSE LET b1 == ins(s.builder, "jump", br_destination(frame),
                                  peekn(s, return_count), <<>>, 0, 0)
                        s2 == popn(WithBuilder(s, b1), return_count)
                    IN [s2 EXCEPT !.real_unreachable_stack_depth =
                                      1 + relative_depth]

Br(s, relative_depth) ==
    LET i == cs_index(s, relative_depth)
    IN IF i < 1 THEN Abort(s)
       ELSE LET s1 == set_reachable(s, i)
                frame == s1.control_stack[i]
                return_count == IF is_loop(frame) THEN 0
                                ELSE frame.num_return_values
            IN IF return_count > Len(s1.stack) THEN Abort(s1)
               ELSE LET b1 == ins(s1.builder, "jump", br_destination(frame),
                                  peekn(s1, return_count), <<>>, 0, 0)
                        s2 == popn(WithBuilder(s1, b1), return_count)
                    IN [s2 EXCEPT !.real_unreachable_stack_depth =
                                      1 + relative_depth]

\* Faulty variant: the values passed to the branch are popped, as br does.
BrIfPoppingArgs(s, relative_depth) ==
    IF Len(s.stack) < 1 THEN Abort(s)
    ELSE LET val == Last(s.stack)
             s0 == popn(s, 1)
             i == cs_index(s0, relative_depth)
         IN IF i < 1 THEN Abort(s0)
            ELSE LET s1 == set_reachable(s0, i)
                     frame == s1.control_stack[i]
                     return_count == IF is_loop(frame) THEN 0
                                     ELSE frame.num_return_values
                 IN IF return_count > Len(s1.stack) THEN Abort(s1)
                    ELSE popn(WithBuilder(s1,
                                  ins(s1.builder, "brnz", br_destination(frame),
                                      <<val>> \o peekn(s1, return_count),
                                      <<>>, 0, 0)),
                              return_count)

BrIf(s, relative_depth) ==
    IF Len(s.stack) < 1 THEN Abort(s)
    ELSE LET val == Last(s.stack)
             s0 == popn(s, 1)
             i == cs_index(s0, relative_depth)
         IN IF i < 1 THEN Abort(s0)
            ELSE LET s1 == set_reachable(s0, i)
                     frame == s1.control_stack[i]
                     return_count == IF is_loop(frame) THEN 0
                                     ELSE frame.num_return_values
                 IN IF return_count > Len(s1.stack) THEN Abort(s1)
                    ELSE WithBuilder(s1,
                            ins(s1.builder, "brnz", br_destination(frame),
                                <<val>> \o peekn(s1, return_count),
                                <<>>, 0, 0))

\* Faulty variant: a native return whatever the environment's flag.
ReturnIgnoringFlag(s) ==
    IF Len(s.control_stack) < 1 THEN Abort(s)
    ELSE LET s1 == set_reachable(s, 1)
             frame == s1.control_stack[1]
             return_count == frame.num_return_values
         IN IF return_count > Len(s1.stack) THEN Abort(s1)
            ELSE LET args == peekn(s1, return_count)
                     b1 == ins(s1.builder, "return", 0, args, <<>>, 0, 0)
                     s2 == popn(WithBuilder(s1, b1), return_count)
                 IN [s2 EXCEPT !.real_unreachable_stack_depth = 1]

Return(s) ==
    IF Len(s.control_stack) < 1 THEN Abort(s)
    ELSE LET s1 == set_reachable(s, 1)
             frame == s1.control_stack[1]
             return_count == frame.num_return_values
         IN IF return_count > Len(s1.stack) THEN Abort(s1)
            ELSE LET args == peekn(s1, return_count)
                     b1 == IF s1.environ.return_at_end
                           THEN ins(s1.builder, "jump", br_destination(frame),
                                    args, <<>>, 0, 0)
                           ELSE ins(s1.builder, "return", 0, args, <<>>, 0, 0)
                     s2 == popn(WithBuilder(s1, b1), return_count)
                 IN [s2 EXCEPT !.real_unreachable_stack_depth = 1]

\* ------------------------------------------------------------- br_table
\* The loop that lowers min_depth from default over the listed depths.
RECURSIVE br_table_min_depth(_, _, _)
br_table_min_depth(depths, k, min_depth) ==
    IF k > Len(depths) THEN min_depth
    ELSE br_table_min_depth(depths, k + 1,
            IF depths[k] < min_depth THEN depths[k] ELSE min_depth)

\* Faulty variant: the listed targets are entered in the jump table but their
\* frames are not marked reachable.
RECURSIVE br_table_entries_unmarked(_, _, _, _)
br_table_entries_unmarked(s, depths, k, data) ==
    IF k > Len(depths) THEN [s |-> s, data |-> data]
    ELSE LET i == cs_index(s, depths[k])
         IN IF i < 1 THEN [s |-> Abort(s), data |-> data]
            ELSE br_table_entries_unmarked(s, depths, k + 1,
                    Append(data, br_destination(s.control_stack[i])))

\* No jump arguments: one jump table entry per listed depth, each target
\* frame marked reachable.
RECURSIVE br_table_entries(_, _, _, _)
br_table_entries(s, depths, k, data) ==
    IF k > Len(depths) THEN [s |-> s, data |-> data]
    ELSE LET i == cs_index(s, depths[k])
         IN IF i < 1 THEN [s |-> Abort(s), data |-> data]
            ELSE br_table_entries(set_reachable(s, i), depths, k + 1,
                    Append(data, br_destination(s.control_stack[i])))

\* Faulty variant: a new Ebb is created for every listed depth, equal or
\* not to an earlier one.
RECURSIVE br_table_dest_ebbs_unshared(_, _, _, _, _)
br_table_dest_ebbs_unshared(b, depths, k, acc, data) ==
    IF k > Len(depths) THEN [b |-> b, dest_ebbs |-> acc, data |-> data]
    ELSE LET branch_ebb == NextEbb(b)
         IN br_table_dest_ebbs_unshared(create_ebb(b), depths, k + 1,
                acc @@ (depths[k] :> branch_ebb), Append(data, branch_ebb))

\* With jump arguments: the fold that creates one Ebb per distinct listed
\* depth (dest_ebbs, a map from depth to Ebb) and fills the jump table.
RECURSIVE br_table_dest_ebbs(_, _, _, _, _)
br_table_dest_ebbs(b, depths, k, acc, data) ==
    IF k > Len(depths) THEN [b |-> b, dest_ebbs |-> acc, data |-> data]
    ELSE IF depths[k] \notin DOMAIN acc
    THEN LET branch_ebb == NextEbb(b)
         IN br_table_dest_ebbs(create_ebb(b), depths, k + 1,
                acc @@ (depths[k] :> branch_ebb), Append(data, branch_ebb))
    ELSE br_table_dest_ebbs(b, depths, k + 1, acc,
                Append(data, acc[depths[k]]))

\* The body of `for (depth, dest_ebb) in dest_ebbs`, run in the order the
\* HashMap yields its entries.
\* Faulty variant: the trampoline is switched to and filled but not sealed.
br_table_trampoline_unsealed(s, depth, dest_ebb, return_count) ==
    LET b1 == switch_to_block(s.builder, dest_ebb)
        i == cs_index(s, depth)
    IN IF i < 1 THEN Abort(WithBuilder(s, b1))
       ELSE LET s1 == set_reachable(WithBuilder(s, b1), i)
                real_dest_ebb == br_destination(s1.control_stack[i])
            IN WithBuilder(s1, ins(s1.builder, "jump", real_dest_ebb,
                                   peekn(s1, return_count), <<>>, 0, 0))

br_table_trampoline(s, depth, dest_ebb, return_count) ==
    LET b1 == seal_block(switch_to_block(s.builder, dest_ebb), dest_ebb)
        i == cs_index(s, depth)
    IN IF i < 1 THEN Abort(WithBuilder(s, b1))
       ELSE LET s1 == set_reachable(WithBuilder(s, b1), i)
                real_dest_ebb == br_destination(s1.control_stack[i])
            IN WithBuilder(s1, ins(s1.builder, "jump", real_dest_ebb,
                                   peekn(s1, return_count), <<>>, 0, 0))

RECURSIVE br_table_trampolines(_, _, _, _, _)
br_table_trampolines(s, dest_ebbs, order, k, return_count) ==
    IF s.aborted \/ k > Len(order) THEN s
    ELSE br_table_trampolines(
            br_table_trampoline(s, order[k], dest_ebbs[order[k]],
                                return_count),
            dest_ebbs, order, k + 1, return_count)

\* The orders in which a HashMap whose keys are the listed depths can
\* yield them.
Orders(depths) ==
    LET keys == Range(depths)
    IN {o \in [1..Cardinality(keys) -> keys] : Range(o) = keys}

\* Faulty variant: the default target is also pushed as a last entry of the
\* jump table.
BrTableNoArgsDefaultEntry(s, depths, default, min_depth) ==
    IF Len(s.stack) < 1 THEN Abort(s)
    ELSE LET val == Last(s.stack)
             r == br_table_entries(popn(s, 1), depths, 1, <<>>)
             s1 == r.s
             i == cs_index(s1, default)
         IN IF s1.aborted THEN s1
            ELSE IF i < 1 THEN Abort(s1)
            ELSE LET ebb == br_destination(s1.control_stack[i])
                     b1 == ins(s1.builder, "br_table", 0, <<val>>,
                               Append(r.data, ebb), 0, 0)
                     b2 == ins(b1, "jump", ebb, <<>>, <<>>, 0, 0)
                     s2 == [WithBuilder(s1, b2) EXCEPT
                              !.real_unreachable_stack_depth = 1 + min_depth]
                 IN set_reachable(s2, i)

BrTableNoArgs(s, depths, default, min_depth) ==
    IF Len(s.stack) < 1 THEN Abort(s)
    ELSE LET val == Last(s.stack)
             r == br_table_entries(popn(s, 1), depths, 1, <<>>)
             s1 == r.s
             i == cs_index(s1, default)
         IN IF s1.aborted THEN s1
            ELSE LET b1 == ins(s1.builder, "br_table", 0, <<val>>, r.data,
                               0, 0)
                 IN IF i < 1 THEN Abort(WithBuilder(s1, b1))
                    ELSE LET ebb == br_destination(s1.control_stack[i])
                             b2 == ins(b1, "jump", ebb, <<>>, <<>>, 0, 0)
                             s2 == [WithBuilder(s1, b2) EXCEPT
                                      !.real_unreachable_stack_depth =
                                          1 + min_depth]
                         IN set_reachable(s2, i)

BrTableArgs(s, depths, default, min_depth, return_count, order) ==
    IF Len(s.stack) < 1 THEN Abort(s)
    ELSE LET val == Last(s.stack)
             s0 == popn(s, 1)
             r == br_table_dest_ebbs(s0.builder, depths, 1, <<>>, <<>>)
             b1 == ins(r.b, "br_table", 0, <<val>>, r.data, 0, 0)
             s1 == WithBuilder(s0, b1)
             i == cs_index(s1, default)
         IN IF i < 1 \/ return_count > Len(s1.stack) THEN Abort(s1)
            ELSE LET default_ebb == br_destination(s1.control_stack[i])
                     b2 == ins(b1, "jump", default_ebb,
                               peekn(s1, return_count), <<>>, 0, 0)
                     s2 == br_table_trampolines(WithBuilder(s1, b2),
                               r.dest_ebbs, order, 1, return_count)
                 IN IF s2.aborted THEN s2
                    ELSE [popn(s2, return_count) EXCEPT
                            !.real_unreachable_stack_depth = 1 + min_depth]

\* Faulty variant: the real depth is taken from the default target instead
\* of the smallest depth.
BrTableDepthFromDefault(s, depths, default, order) ==
    LET min_depth == br_table_min_depth(depths, 1, default)
        i == cs_index(s, min_depth)
    IN IF i < 1 THEN Abort(s)
       ELSE LET min_depth_frame == s.control_stack[i]
                jump_args_count == IF is_loop(min_depth_frame) THEN 0
                                   ELSE min_depth_frame.num_return_values
            IN IF jump_args_count = 0
               THEN BrTableNoArgs(s, depths, default, default)
               ELSE BrTableArgs(s, depths, default, default,
                                jump_args_count, order)

BrTable(s, depths, default, order) ==
    LET min_depth == br_table_min_depth(depths, 1, default)
        i == cs_index(s, min_depth)
    IN IF i < 1 THEN Abort(s)
       ELSE LET min_depth_frame == s.control_stack[i]
                jump_args_count == IF is_loop(min_depth_frame) THEN 0
                                   ELSE min_depth_frame.num_return_values
            IN IF jump_args_count = 0
               THEN BrTableNoArgs(s, depths, default, min_depth)
               ELSE BrTableArgs(s, depths, default, min_depth,
                                jump_args_count, order)

\* ------------------------------------------- globals, calls, memory size
GetGlobal(s, global_index) ==
    LET s1 == get_global(s, global_index)
        g == s1.globals[global_index]
    IN IF g.tag = "Const" THEN push1(s1, g.val)
       ELSE LET b1 == ins_value(s1.builder, "global_addr", <<>>, g.gv)
                b2 == ins_value(b1, "load", <<b1.nvalues>>, 0)
            IN push1(WithBuilder(s1, b2), b2.nvalues)

\* Faulty variant: the value is popped before the kind of the global is
\* looked at.
SetGlobalPoppingFirst(s, global_index) ==
    IF Len(s.stack) < 1 THEN Abort(s)
    ELSE LET val == Last(s.stack)
             s1 == get_global(popn(s, 1), global_index)
             g == s1.globals[global_index]
         IN IF g.tag = "Const" THEN Abort(s1)
            ELSE LET b1 == ins_value(s1.builder, "global_addr", <<>>, g.gv)
                 IN WithBuilder(s1,
                        ins(b1, "store", 0, <<val, b1.nvalues>>,
                            <<>>, 0, 0))

SetGlobal(s, global_index) ==
    LET s1 == get_global(s, global_index)
        g == s1.globals[global_index]
    IN IF g.tag = "Const" THEN Abort(s1)
       ELSE LET b1 == ins_value(s1.builder, "global_addr", <<>>, g.gv)
                s2 == WithBuilder(s1, b1)
            IN IF Len(s2.stack) < 1 THEN Abort(s2)
               ELSE WithBuilder(popn(s2, 1),
                        ins(b1, "store", 0, <<Last(s2.stack), b1.nvalues>>,
                            <<>>, 0, 0))

\* The call instruction the environment emits, and its results.
CallInst(s, opcode, args, callee, results) ==
    LET b == s.builder
        vals == [k \in 1..results |-> b.nvalues + k]
        b1 == ins(b, opcode, 0, args, <<>>, callee,
                  IF results = 0 THEN 0 ELSE b.nvalues + results)
    IN [s |-> WithBuilder(s, b1), vals |-> vals]

Call(s, function_index) ==
    LET s1 == get_direct_func(s, function_index)
        f == s1.functions[function_index]
    IN IF f.num_args > Len(s1.stack) THEN Abort(s1)
       ELSE LET r == CallInst(s1, "call", peekn(s1, f.num_args), f.fref,
                              SigResults(function_index))
            IN pushn(popn(r.s, f.num_args), r.vals)

CallIndirect(s, index) ==
    LET s1 == get_indirect_sig(s, index)
        g == s1.signatures[index]
    IN IF Len(s1.stack) < 1 THEN Abort(s1)
       ELSE LET callee == Last(s1.stack)
                s2 == popn(s1, 1)
            IN IF g.num_args > Len(s2.stack) THEN Abort(s2)
               ELSE LET r == CallInst(s2, "call_indirect",
                                  <<callee>> \o peekn(s2, g.num_args),
                                  g.sig, SigResults(index))
                    IN pushn(popn(r.s, g.num_args), r.vals)

GrowMemory(s, reserved) ==
    LET s1 == get_heap(s, reserved)
    IN IF Len(s1.stack) < 1 THEN Abort(s1)
       ELSE LET b1 == ins_value(s1.builder, "grow_memory",
                                <<Last(s1.stack)>>, s1.heaps[reserved].heap)
            IN push1(popn(WithBuilder(s1, b1), 1), b1.nvalues)

CurrentMemory(s, reserved) ==
    LET s1 == get_heap(s, reserved)
        b1 == ins_value(s1.builder, "current_memory", <<>>,
                        s1.heaps[reserved].heap)
    IN push1(WithBuilder(s1, b1), b1.nvalues)

\* ------------------------------------------------------- memory accesses
\* Faulty variant: the check size is not capped at the largest u32.
get_heap_addr_uncapped(s, addr32, offset) ==
    LET guard_size == s.environ.guard_size
    IN IF ~(guard_size > 0)
       THEN [s |-> Abort(s), base |-> 0, offset |-> 0]
       ELSE LET check_size ==
                    as_u32(1 + (offset \div guard_size) * guard_size)
                b1 == ins_value(s.builder, "heap_addr", <<addr32>>,
                                check_size)
                base == b1.nvalues
            IN IF offset > i32_max_value
               THEN LET b2 == ins_value(b1, "iadd_imm", <<base>>,
                                        i32_max_value + 1)
                    IN [s |-> WithBuilder(s, b2), base |-> b2.nvalues,
                        offset |-> as_i32(offset - (i32_max_value + 1))]
               ELSE [s |-> WithBuilder(s, b1), base |-> base,
                     offset |-> as_i32(offset)]

\* Faulty variant: the check size leaves out the byte the pointer itself
\* points to.
get_heap_addr_without_one(s, addr32, offset) ==
    LET guard_size == s.environ.guard_size
    IN IF ~(guard_size > 0)
       THEN [s |-> Abort(s), base |-> 0, offset |-> 0]
       ELSE LET check_size ==
                    as_u32(min(u32_max_value,
                               (offset \div guard_size) * guard_size))
                b1 == ins_value(s.builder, "heap_addr", <<addr32>>,
                                check_size)
                base == b1.nvalues
            IN IF offset > i32_max_value
               THEN LET b2 == ins_value(b1, "iadd_imm", <<base>>,
                                        i32_max_value + 1)
                    IN [s |-> WithBuilder(s, b2), base |-> b2.nvalues,
                        offset |-> as_i32(offset - (i32_max_value + 1))]
               ELSE [s |-> WithBuilder(s, b1), base |-> base,
                     offset |-> as_i32(offset)]

\* Faulty variant: the base is never adjusted and the offset is cast as it
\* is.
get_heap_addr_unadjusted(s, addr32, offset) ==
    LET guard_size == s.environ.guard_size
    IN IF ~(guard_size > 0)
       THEN [s |-> Abort(s), base |-> 0, offset |-> 0]
       ELSE LET check_size ==
                    as_u32(min(u32_max_value,
                               1 + (offset \div guard_size) * guard_size))
                b1 == ins_value(s.builder, "heap_addr", <<addr32>>,
                                check_size)
            IN [s |-> WithBuilder(s, b1), base |-> b1.nvalues,
                offset |-> as_i32(offset)]

\* get_heap_addr on the one linear memory: the state after it and the pair
\* (base, offset) it returns. guard_size is that of the heap the
\* environment made; the i64 arithmetic cannot overflow for a u32 offset.
get_heap_addr(s, addr32, offset) ==
    LET guard_size == s.environ.guard_size
    IN IF ~(guard_size > 0)
       THEN [s |-> Abort(s), base |-> 0, offset |-> 0]
       ELSE LET check_size ==
                    as_u32(min(u32_max_value,
                               1 + (offset \div guard_size) * guard_size))
                b1 == ins_value(s.builder, "heap_addr", <<addr32>>,
                                check_size)
                base == b1.nvalues
            IN IF offset > i32_max_value
               THEN LET b2 == ins_value(b1, "iadd_imm", <<base>>,
                                        i32_max_value + 1)
                    IN [s |-> WithBuilder(s, b2), base |-> b2.nvalues,
                        offset |-> as_i32(offset - (i32_max_value + 1))]
               ELSE [s |-> WithBuilder(s, b1), base |-> base,
                     offset |-> as_i32(offset)]

translate_load(s, offset) ==
    LET s0 == pop1(s)
    IN IF s0.aborted THEN s0
       ELSE LET addr32 == Last(s.stack)
                r == get_heap_addr(get_heap(s0, 0), addr32, offset)
            IN IF r.s.aborted THEN r.s
               ELSE LET b1 == ins_value(r.s.builder, "load", <<r.base>>,
                                        r.offset)
                    IN push1(WithBuilder(r.s, b1), b1.nvalues)

translate_store(s, offset) ==
    LET s0 == pop2(s)
    IN IF s0.aborted THEN s0
       ELSE LET addr32 == s.stack[Len(s.stack) - 1]
                val == Last(s.stack)
                r == get_heap_addr(get_heap(s0, 0), addr32, offset)
            IN IF r.s.aborted THEN r.s
               ELSE WithBuilder(r.s,
                        ins(r.s.builder, "store", 0, <<val, r.base>>, <<>>,
                            r.offset, 0))

\* ------------------------------------------ translate_unreachable_operator
\* Faulty variant: the End of a frame lowers the real depth by one whatever
\* the frame is.
UnreachableEndFrameCounting(s) ==
    IF Len(s.control_stack) < 1 THEN Abort(s)
    ELSE LET frame == Last(s.control_stack)
             b1 == seal_block(
                       switch_to_block(s.builder, following_code(frame)),
                       following_code(frame))
             b2 == IF frame.kind = "Loop"
                   THEN seal_block(b1, frame.header) ELSE b1
             real == s.real_unreachable_stack_depth
             stack1 == Truncate(s.stack, frame.original_stack_size)
             stack2 == IF real = 1
                       THEN stack1 \o ebb_params(b2, following_code(frame))
                       ELSE stack1
         IN [s EXCEPT !.control_stack = Front(@),
                      !.builder = b2,
                      !.stack = stack2,
                      !.real_unreachable_stack_depth = real - 1]

\* Faulty variant: the End of a frame that is neither an If nor marked
\* reachable leaves the real depth as it is.
UnreachableEndFrameStaying(s) ==
    IF Len(s.control_stack) < 1 THEN Abort(s)
    ELSE LET frame == Last(s.control_stack)
             b1 == seal_block(
                       switch_to_block(s.builder, following_code(frame)),
                       following_code(frame))
             b2 == IF frame.kind = "Loop"
                   THEN seal_block(b1, frame.header) ELSE b1
             reset == frame.kind = "If" \/ is_reachable(frame)
             stack1 == Truncate(s.stack, frame.original_stack_size)
             stack2 == IF reset
                       THEN stack1 \o ebb_params(b2, following_code(frame))
                       ELSE stack1
         IN [s EXCEPT !.control_stack = Front(@),
                      !.builder = b2,
                      !.stack = stack2,
                      !.real_unreachable_stack_depth =
                          IF reset THEN 0 ELSE @]

\* Faulty variant: the operand stack keeps the values the unreachable code
\* left on it.
UnreachableEndFrameKeepingStack(s) ==
    IF Len(s.control_stack) < 1 THEN Abort(s)
    ELSE LET frame == Last(s.control_stack)
             b1 == seal_block(
                       switch_to_block(s.builder, following_code(frame)),
                       following_code(frame))
             b2 == IF frame.kind = "Loop"
                   THEN seal_block(b1, frame.header) ELSE b1
             real == IF frame.kind = "If" \/ is_reachable(frame) THEN 1
                     ELSE s.real_unreachable_stack_depth
             stack2 == IF real = 1
                       THEN s.stack \o ebb_params(b2, following_code(frame))
                       ELSE s.stack
         IN [s EXCEPT !.control_stack = Front(@),
                      !.builder = b2,
                      !.stack = stack2,
                      !.real_unreachable_stack_depth = real - 1]

\* Faulty variant: the parameters of the destination are pushed whatever
\* the real depth.
UnreachableEndFramePushing(s) ==
    IF Len(s.control_stack) < 1 THEN Abort(s)
    ELSE LET frame == Last(s.control_stack)
             b1 == seal_block(
                       switch_to_block(s.builder, following_code(frame)),
                       following_code(frame))
             b2 == IF frame.kind = "Loop"
                   THEN seal_block(b1, frame.header) ELSE b1
             real == IF frame.kind = "If" \/ is_reachable(frame) THEN 1
                     ELSE s.real_unreachable_stack_depth
             stack1 == Truncate(s.stack, frame.original_stack_size)
         IN [s EXCEPT !.control_stack = Front(@),
                      !.builder = b2,
                      !.stack = stack1
                                  \o ebb_params(b2, following_code(frame)),
                      !.real_unreachable_stack_depth = real - 1]

\* The End of a construct that has a frame on the control stack.
UnreachableEndFrame(s) ==
    IF Len(s.control_stack) < 1 THEN Abort(s)
    ELSE LET frame == Last(s.control_stack)
             b1 == seal_block(
                       switch_to_block(s.builder, following_code(frame)),
                       following_code(frame))
             b2 == IF frame.kind = "Loop"
                   THEN seal_block(b1, frame.header) ELSE b1
             real == IF frame.kind = "If" \/ is_reachable(frame) THEN 1
                     ELSE s.real_unreachable_stack_depth
             stack1 == Truncate(s.stack, frame.original_stack_size)
             stack2 == IF real = 1
                       THEN stack1 \o ebb_params(b2, following_code(frame))
                       ELSE stack1
         IN [s EXCEPT !.control_stack = Front(@),
                      !.builder = b2,
                      !.stack = stack2,
                      !.real_unreachable_stack_depth = real - 1]

\* Faulty variant: End takes the frame path whatever the phantom depth.
UnreachableEndIgnoringPhantom(s) == UnreachableEndFrame(s)

\* Faulty variant: the End of a phantom construct leaves the phantom depth alone.
UnreachableEndKeepingPhantom(s) ==
    IF s.phantom_unreachable_stack_depth > 0 THEN s
    ELSE UnreachableEndFrame(s)

UnreachableEnd(s) ==
    IF s.phantom_unreachable_stack_depth > 0
    THEN [s EXCEPT !.phantom_unreachable_stack_depth = @ - 1]
    ELSE UnreachableEndFrame(s)

\* Faulty variant: the Else of a frame lowers the real depth by one, as the
\* End of a frame no branch targets does.
UnreachableElseCountingDown(s) ==
    IF s.phantom_unreachable_stack_depth > 0 THEN s
    ELSE IF Len(s.control_stack) < 1 THEN Abort(s)
    ELSE LET frame == Last(s.control_stack)
         IN IF frame.kind # "If" THEN Abort(s)
            ELSE LET else_ebb == NextEbb(s.builder)
                     b1 == create_ebb(s.builder)
                     b2 == change_jump_destination(b1, frame.branch_inst,
                                                   else_ebb)
                     b3 == switch_to_block(seal_block(b2, else_ebb), else_ebb)
                 IN [s EXCEPT !.builder = b3,
                              !.stack = Truncate(@, frame.original_stack_size),
                              !.real_unreachable_stack_depth = @ - 1]

\* Faulty variant: an Else inside a phantom construct closes it.
UnreachableElseClosingPhantom(s) ==
    IF s.phantom_unreachable_stack_depth > 0
    THEN [s EXCEPT !.phantom_unreachable_stack_depth = @ - 1]
    ELSE IF Len(s.control_stack) < 1 THEN Abort(s)
    ELSE LET frame == Last(s.control_stack)
         IN IF frame.kind # "If" THEN Abort(s)
            ELSE LET else_ebb == NextEbb(s.builder)
                     b1 == create_ebb(s.builder)
                     b2 == change_jump_destination(b1, frame.branch_inst,
                                                   else_ebb)
                     b3 == switch_to_block(seal_block(b2, else_ebb), else_ebb)
                 IN [s EXCEPT !.builder = b3,
                              !.stack = Truncate(@, frame.original_stack_size),
                              !.real_unreachable_stack_depth = 0]

UnreachableElse(s) ==
    IF s.phantom_unreachable_stack_depth > 0 THEN s
    ELSE IF Len(s.control_stack) < 1 THEN Abort(s)
    ELSE LET frame == Last(s.control_stack)
         IN IF frame.kind # "If" THEN Abort(s)
            ELSE LET else_ebb == NextEbb(s.builder)
                     b1 == create_ebb(s.builder)
                     b2 == change_jump_destination(b1, frame.branch_inst,
                                                   else_ebb)
                     b3 == switch_to_block(seal_block(b2, else_ebb), else_ebb)
                 IN [s EXCEPT !.builder = b3,
                              !.stack = Truncate(@, frame.original_stack_size),
                              !.real_unreachable_stack_depth = 0]

\* Faulty variant: a constant met in unreachable code is translated.
translate_unreachable_operator_with_constants(s, op) ==
    CASE op.op \in {"If", "Loop", "Block"} ->
            [s EXCEPT !.phantom_unreachable_stack_depth = @ + 1]
      [] op.op = "End" -> UnreachableEnd(s)
      [] op.op = "Else" -> UnreachableElse(s)
      [] op.op = "I32Const" -> I32Const(s, op.arg)
      [] OTHER -> s

\* Faulty variant: a Loop met in unreachable code is not counted as phantom.
translate_unreachable_operator_skipping_loop(s, op) ==
    CASE op.op \in {"If", "Block"} ->
            [s EXCEPT !.phantom_unreachable_stack_depth = @ + 1]
      [] op.op = "End" -> UnreachableEnd(s)
      [] op.op = "Else" -> UnreachableElse(s)
      [] OTHER -> s

translate_unreachable_operator(s, op) ==
    CASE op.op \in {"If", "Loop", "Block"} ->
            [s EXCEPT !.phantom_unreachable_stack_depth = @ + 1]
      [] op.op = "End" -> UnreachableEnd(s)
      [] op.op = "Else" -> UnreachableElse(s)
      [] OTHER -> s

\* in_unreachable_code, with the outcome of its debug assertion.
in_unreachable_code(s) == s.real_unreachable_stack_depth > 0

in_unreachable_code_assert_fails(s) ==
    /\ s.real_unreachable_stack_depth = 0
    /\ s.phantom_unreachable_stack_depth # 0
    /\ s.debug_assertions

\* An operator: its name, its immediate and, for br_table, the depth list
\* (arg is then the default depth).
Operator(op, arg, table) == [op |-> op, arg |-> arg, table |-> table]

\* translate_operator. order is the order in which the HashMap of a
\* br_table with jump arguments yields its entries.
translate_operator(s, op, order) ==
    IF in_unreachable_code(s) THEN translate_unreachable_operator(s, op)
    ELSE IF in_unreachable_code_assert_fails(s) THEN Abort(s)
    ELSE CASE op.op = "I32Const" -> I32Const(s, op.arg)
           [] op.op = "Drop" -> Drop(s)
           [] op.op = "I32Add" -> I32Add(s)
           [] op.op = "Nop" -> Nop(s)
           [] op.op = "Unreachable" -> Unreachable(s)
           [] op.op = "Block" -> Block(s, op.arg)
           [] op.op = "Loop" -> Loop(s, op.arg)
           [] op.op = "If" -> If(s, op.arg)
           [] op.op = "Else" -> Else(s)
           [] op.op = "End" -> End(s)
           [] op.op = "Br" -> Br(s, op.arg)
           [] op.op = "BrIf" -> BrIf(s, op.arg)
           [] op.op = "BrTable" -> BrTable(s, op.table, op.arg, order)
           [] op.op = "Return" -> Return(s)
           [] op.op = "GetGlobal" -> GetGlobal(s, op.arg)
           [] op.op = "SetGlobal" -> SetGlobal(s, op.arg)
           [] op.op = "Call" -> Call(s, op.arg)
           [] op.op = "CallIndirect" -> CallIndirect(s, op.arg)
           [] op.op = "GrowMemory" -> GrowMemory(s, op.arg)
           [] op.op = "CurrentMemory" -> CurrentMemory(s, op.arg)
           [] op.op = "I32Load" -> translate_load(s, op.arg)
           [] op.op = "I32Store" -> translate_store(s, op.arg)

\* ------------------------------------------------ well-formed input bodies
\* The translator assumes a validated body. Validity is tracked as Wasm
\* validation does, independently of the translator: a stack of open
\* constructs (kind, operand height at entry, result count, whether the rest
\* of the construct is dead code) and the operand stack height.
VFrame(kind, height, results) ==
    [kind |-> kind, height |-> height, results |-> results,
     unreachable |-> FALSE]

vtop(w) == Last(w.ctrl)

avail(w) == w.height - vtop(w).height

can_pop(w, n) == vtop(w).unreachable \/ avail(w) >= n

vpop(w, n) ==
    [w EXCEPT !.height = IF avail(w) >= n THEN @ - n ELSE vtop(w).height]

vpush(w, n) == [w EXCEPT !.height = @ + n]

vdead(w) ==
    [w EXCEPT !.height = vtop(w).height,
              !.ctrl[Len(w.ctrl)].unreachable = TRUE]

label_arity(w, k) ==
    LET f == w.ctrl[Len(w.ctrl) - k]
    IN IF f.kind = "Loop" THEN 0 ELSE f.results

end_ok(w) ==
    IF vtop(w).unreachable THEN avail(w) <= vtop(w).results
    ELSE avail(w) = vtop(w).results

\* Operands popped and pushed by the operators without control effect.
Pops(op) ==
    CASE op.op \in {"Drop", "SetGlobal", "GrowMemory", "I32Load"} -> 1
      [] op.op \in {"I32Add", "I32Store"} -> 2
      [] op.op = "Call" -> normal_args(op.arg)
      [] op.op = "CallIndirect" -> 1 + normal_args(op.arg)
      [] OTHER -> 0

Pushes(op) ==
    CASE op.op \in {"I32Const", "I32Add", "GetGlobal", "GrowMemory",
                    "CurrentMemory", "I32Load"} -> 1
      [] op.op \in {"Call", "CallIndirect"} -> SigResults(op.arg)
      [] OTHER -> 0

Plain == {"I32Const", "Drop", "I32Add", "Nop", "GetGlobal", "SetGlobal",
          "Call", "CallIndirect", "GrowMemory", "CurrentMemory", "I32Load",
          "I32Store"}

WellFormed(w, op) ==
    /\ Len(w.ctrl) > 0
    /\ CASE op.op \in Plain ->
              /\ can_pop(w, Pops(op))
              /\ op.op = "SetGlobal" => ~GlobalIsConst(op.arg)
         [] op.op \in {"Unreachable", "Block", "Loop"} -> TRUE
         [] op.op = "If" -> can_pop(w, 1)
         [] op.op = "Else" -> vtop(w).kind = "If" /\ end_ok(w)
         [] op.op = "End" ->
              /\ end_ok(w)
              /\ vtop(w).kind = "If" => vtop(w).results = 0
         [] op.op = "Br" ->
              /\ op.arg < Len(w.ctrl)
              /\ can_pop(w, label_arity(w, op.arg))
         [] op.op = "BrIf" ->
              /\ op.arg < Len(w.ctrl)
              /\ can_pop(w, 1)
              /\ can_pop(vpop(w, 1), label_arity(w, op.arg))
         [] op.op = "BrTable" ->
              /\ op.arg < Len(w.ctrl)
              /\ \A k \in 1..Len(op.table) :
                    /\ op.table[k] < Len(w.ctrl)
                    /\ label_arity(w, op.table[k]) = label_arity(w, op.arg)
              /\ can_pop(w, 1)
              /\ can_pop(vpop(w, 1), label_arity(w, op.arg))
         [] op.op = "Return" -> can_pop(w, w.ctrl[1].results)

Validate(w, op) ==
    CASE op.op \in Plain -> vpush(vpop(w, Pops(op)), Pushes(op))
      [] op.op = "Unreachable" -> vdead(w)
      [] op.op \in {"Block", "Loop"} ->
            [w EXCEPT !.ctrl = Append(@, VFrame(op.op, w.height,
                                               num_return_values(op.arg)))]
      [] op.op = "If" ->
            LET w1 == vpop(w, 1)
            IN [w1 EXCEPT !.ctrl = Append(@, VFrame("If", w1.height,
                                                num_return_values(op.arg)))]
      [] op.op = "Else" ->
            [w EXCEPT !.height = vtop(w).height,
                      !.ctrl[Len(w.ctrl)] =
                          VFrame("Else", vtop(w).height, vtop(w).results)]
      [] op.op = "End" ->
            [w EXCEPT !.height = vtop(w).height + vtop(w).results,
                      !.ctrl = Front(@)]
      [] op.op = "BrIf" ->
            LET n == label_arity(w, op.arg)
            IN vpush(vpop(vpop(w, 1), n), n)
      [] op.op \in {"Br", "BrTable", "Return"} -> vdead(w)

\* The constructs an operator sequence has open, whatever its validity:
\* Block, Loop and If open one, End closes the innermost if there is one,
\* Else turns an innermost If into its else part.
Nest(w, op) ==
    CASE op.op \in {"Block", "Loop", "If"} ->
            [w EXCEPT !.ctrl = Append(@, VFrame(op.op, 0, 0))]
      [] op.op = "End" /\ Len(w.ctrl) > 0 -> [w EXCEPT !.ctrl = Front(@)]
      [] op.op = "Else" /\ Len(w.ctrl) > 0 /\ vtop(w).kind = "If" ->
            [w EXCEPT !.ctrl[Len(w.ctrl)].kind = "Else"]
      [] OTHER -> w

\* ------------------------------------------------------------------ state
VARIABLES
    \* TranslationState
    stack, control_stack, phantom_unreachable_stack_depth,
    real_unreachable_stack_depth, globals, heaps, signatures, functions,
    \* the FunctionBuilder (with the function under construction), the
    \* FuncEnvironment, whether a panic ended the translation, and whether
    \* debug assertions and overflow checks are compiled in
    builder, environ, aborted, debug_assertions,
    \* the input: validity tracking of the body read so far, the number of
    \* operators read, the last one and the dispatcher that handled it
    wf, nops, last_op, dispatched,
    \* observations: for each open construct the control stack depth before
    \* its opening operator; the nesting depth of the input at which the
    \* last unreachable region entered is to end; the entries the get_* calls
    \* returned in this function; a second translation of the same input;
    \* the number of functions translated before this one and what the last
    \* of them left behind; the purposes of the return values of the
    \* signature of the function being translated
    opened, exit_depth, returned, twin, earlier, sig

program_vars ==
    <<stack, control_stack, phantom_unreachable_stack_depth,
      real_unreachable_stack_depth, globals, heaps, signatures, functions,
      builder, environ, aborted, debug_assertions>>

vars ==
    <<stack, control_stack, phantom_unreachable_stack_depth,
      real_unreachable_stack_depth, globals, heaps, signatures, functions,
      builder, environ, aborted, debug_assertions,
      wf, nops, last_op, dispatched, opened, exit_depth, returned, twin,
      earlier, sig>>

State ==
    [stack |-> stack, control_stack |-> control_stack,
     phantom_unreachable_stack_depth |-> phantom_unreachable_stack_depth,
     real_unreachable_stack_depth |-> real_unreachable_stack_depth,
     globals |-> globals, heaps |-> heaps, signatures |-> signatures,
     functions |-> functions, builder |-> builder, environ |-> environ,
     aborted |-> aborted, debug_assertions |-> debug_assertions]

Install(s) ==
    /\ stack' = s.stack
    /\ control_stack' = s.control_stack
    /\ phantom_unreachable_stack_depth' = s.phantom_unreachable_stack_depth
    /\ real_unreachable_stack_depth' = s.real_unreachable_stack_depth
    /\ globals' = s.globals
    /\ heaps' = s.heaps
    /\ signatures' = s.signatures
    /\ functions' = s.functions
    /\ builder' = s.builder
    /\ environ' = s.environ
    /\ aborted' = s.aborted
    /\ debug_assertions' = s.debug_assertions

NoCalls ==
    [kind \in {"make_global", "make_heap", "make_indirect_sig",
               "make_direct_func"} |-> [i \in Indices |-> 0]]

NoneReturned ==
    [kind \in {"globals", "heaps", "signatures", "functions"} |->
        [i \in Indices |-> {}]]

NoOperator == Operator("", 0, <<>>)

\* What the state holds before the first function.
NothingLeft ==
    [calls |-> NoCalls, stack |-> FALSE, control_stack |-> FALSE,
     real |-> FALSE, phantom |-> FALSE]

\* TranslationState::new(), before any function is translated.
new(debug) ==
    [stack |-> <<>>, control_stack |-> <<>>,
     phantom_unreachable_stack_depth |-> 0,
     real_unreachable_stack_depth |-> 0,
     globals |-> EmptyCache, heaps |-> EmptyCache,
     signatures |-> EmptyCache, functions |-> EmptyCache,
     builder |-> [ebbs |-> <<>>, insts |-> <<>>, position |-> 0,
                  nvalues |-> 0,
                  entities |-> [gv |-> 0, heap |-> 0, sig |-> 0, fref |-> 0]],
     environ |-> [return_at_end |-> FALSE, calls |-> NoCalls,
                  guard_size |-> DefaultGuardSize],
     aborted |-> FALSE, debug_assertions |-> debug]

InitWith(builds) ==
    \E debug \in builds :
        LET s == new(debug)
        IN /\ stack = s.stack
           /\ control_stack = s.control_stack
           /\ phantom_unreachable_stack_depth = 0
           /\ real_unreachable_stack_depth = 0
           /\ globals = s.globals
           /\ heaps = s.heaps
           /\ signatures = s.signatures
           /\ functions = s.functions
           /\ builder = s.builder
           /\ environ = s.environ
           /\ aborted = FALSE
           /\ debug_assertions = debug
           /\ wf = [ctrl |-> <<>>, height |-> 0]
           /\ nops = 0
           /\ last_op = NoOperator
           /\ dispatched = "none"
           /\ opened = <<>>
           /\ exit_depth = -1
           /\ returned = NoneReturned
           /\ twin = s
           /\ earlier = [functions |-> 0, left |-> NothingLeft]
           /\ sig = <<>>

Init == InitWith({TRUE})

InitAny == InitWith(BOOLEAN)

\* ----------------------------------------------------------------- driver
\* The entry driver for one function: a fresh builder with the entry Ebb
\* (created, switched to, sealed, inserted) and the exit Ebb, whose
\* parameters are the function's return values; then initialize().
RECURSIVE append_ebb_params(_, _, _)
append_ebb_params(b, ebb, n) ==
    IF n = 0 THEN b
    ELSE append_ebb_params(append_ebb_param(b, ebb), ebb, n - 1)

NewFunctionBuilder(returns) ==
    LET b0 == [ebbs |-> <<>>, insts |-> <<>>, position |-> 0, nvalues |-> 0,
               entities |-> [gv |-> 0, heap |-> 0, sig |-> 0, fref |-> 0]]
        b1 == seal_block(switch_to_block(create_ebb(b0), EntryEbb), EntryEbb)
        b2 == [b1 EXCEPT !.ebbs[EntryEbb].pristine = FALSE]
        b3 == create_ebb(b2)
    IN append_ebb_params(b3, ExitEbb, Len(returns))

translate_function(s, returns, return_at_end) ==
    initialize([s EXCEPT !.builder = NewFunctionBuilder(returns),
                         !.environ = [return_at_end |-> return_at_end,
                                      calls |-> NoCalls,
                                      guard_size |-> s.environ.guard_size]],
               returns, ExitEbb)

\* The modes the actions are taken in: with or without the validity of the
\* input enforced, with or without the second translation, the number of
\* operators read per function body, the number of functions the state
\* is used for (0: any number, the earlier ones not recorded), and whether
\* the nesting of an unvalidated input is followed.
Checked ==
    [checked |-> TRUE, paired |-> FALSE, budget |-> MaxOps,
     functions |-> 0, nesting |-> FALSE]

Unchecked ==
    [checked |-> FALSE, paired |-> FALSE, budget |-> MaxOps,
     functions |-> 0, nesting |-> FALSE]

Paired ==
    [checked |-> TRUE, paired |-> TRUE, budget |-> MaxOps + 1,
     functions |-> 0, nesting |-> FALSE]

\* Longer bodies over fewer operators.
Deep ==
    [checked |-> TRUE, paired |-> FALSE, budget |-> MaxOps + 1,
     functions |-> 0, nesting |-> FALSE]

\* A module of MaxFunctions functions translated one after the other with
\* the same TranslationState.
Module ==
    [checked |-> TRUE, paired |-> FALSE, budget |-> MaxOps - 1,
     functions |-> MaxFunctions, nesting |-> FALSE]

\* The same, a function being started whatever state the translation of
\* the one before is in.
Reuse ==
    [checked |-> FALSE, paired |-> FALSE, budget |-> MaxOps - 2,
     functions |-> MaxFunctions, nesting |-> FALSE]

\* Bodies long enough for two nested blocks, a br_table inside them and
\* the End of each block and of the function.
Nested ==
    [checked |-> TRUE, paired |-> FALSE, budget |-> MaxOps + 3,
     functions |-> 0, nesting |-> FALSE]

\* Bodies long enough for a block with a result, a branch out of it, an
\* operator behind the branch and the End of the block and of the function.
Dead ==
    [checked |-> TRUE, paired |-> FALSE, budget |-> MaxOps + 2,
     functions |-> 0, nesting |-> FALSE]

\* Short bodies of memory accesses.
Memory ==
    [checked |-> TRUE, paired |-> FALSE, budget |-> MaxOps - 1,
     functions |-> 0, nesting |-> FALSE]

\* Any operator sequence, the constructs it opens and closes being followed
\* whether or not it is valid.
Malformed ==
    [checked |-> FALSE, paired |-> FALSE, budget |-> MaxOps,
     functions |-> 0, nesting |-> TRUE]

\* What a function translation leaves behind for the next one: the make_*
\* calls it made (their results are in the caches), and whether it left
\* operands, frames, or positive unreachable depths.
Left ==
    [calls |-> environ.calls, stack |-> stack # <<>>,
     control_stack |-> control_stack # <<>>,
     real |-> real_unreachable_stack_depth > 0,
     phantom |-> phantom_unreachable_stack_depth > 0]

StartFunction(m, returns, return_at_end) ==
    /\ ~aborted
    /\ m.checked => Len(wf.ctrl) = 0
    /\ m.functions > 0 =>
            earlier.functions + 1 < m.functions \/ builder.position = 0
    /\ earlier' = IF m.functions > 0 /\ builder.position # 0
                  THEN [functions |-> earlier.functions + 1, left |-> Left]
                  ELSE earlier
    /\ sig' = returns
    /\ Install(translate_function(State, returns, return_at_end))
    /\ wf' = [ctrl |-> <<VFrame("Block", 0, normal_returns(returns))>>,
              height |-> 0]
    /\ nops' = 0
    /\ last_op' = NoOperator
    /\ dispatched' = "none"
    /\ opened' = <<0>>
    /\ exit_depth' = -1
    /\ returned' = NoneReturned
    /\ twin' = IF m.paired
               THEN translate_function(twin, returns, return_at_end)
               ELSE twin

\* ---------------------------------------------------------------- actions
\* The nesting depth of the input at which the unreachable region an
\* operator opens is to end: the depth left once the targeted construct
\* has been closed.
ExitDepth(op) ==
    LET k == CASE op.op = "Br" -> op.arg
               [] op.op = "BrTable" ->
                    CHOOSE d \in Range(op.table) \cup {op.arg} :
                        \A e \in Range(op.table) \cup {op.arg} : d <= e
               [] OTHER -> 0
    IN Len(wf.ctrl) - 1 - k

Cache(s, kind) ==
    CASE kind = "globals" -> s.globals
      [] kind = "heaps" -> s.heaps
      [] kind = "signatures" -> s.signatures
      [] kind = "functions" -> s.functions

\* The cache an operator consults through get_*, "" if none.
CacheOf(op) ==
    CASE op.op \in {"GetGlobal", "SetGlobal"} -> "globals"
      [] op.op \in {"GrowMemory", "CurrentMemory"} -> "heaps"
      [] op.op = "CallIndirect" -> "signatures"
      [] op.op = "Call" -> "functions"
      [] OTHER -> ""

\* One call of translate_operator on the next operator of the body.
Translate(m, name, arg, table, order, order2) ==
    LET op == Operator(name, arg, table) IN
    /\ ~aborted
    /\ nops < m.budget
    /\ builder.position # 0
    /\ m.checked => WellFormed(wf, op)
    /\ LET s == translate_operator(State, op, order)
           reachable == ~in_unreachable_code(State)
       IN /\ Install(s)
          /\ dispatched' = IF reachable THEN "reachable" ELSE "unreachable"
          /\ exit_depth' =
                IF reachable /\ op.op \in {"Br", "BrTable", "Return",
                                           "Unreachable"}
                THEN ExitDepth(op) ELSE exit_depth
          /\ returned' =
                IF reachable /\ CacheOf(op) # ""
                THEN [returned EXCEPT ![CacheOf(op)][op.arg] =
                         @ \cup {Cache(s, CacheOf(op))[op.arg]}]
                ELSE returned
    /\ wf' = IF m.checked THEN Validate(wf, op)
             ELSE IF m.nesting THEN Nest(wf, op) ELSE wf
    /\ opened' = IF ~m.checked THEN opened
                 ELSE IF op.op \in {"Block", "Loop", "If"}
                 THEN Append(opened, Len(control_stack))
                 ELSE IF op.op = "End" THEN Front(opened)
                 ELSE opened
    /\ nops' = nops + 1
    /\ last_op' = IF in_unreachable_code(State)
                  THEN Operator(op.op, 0, <<>>) ELSE op
    /\ twin' = IF m.paired THEN translate_operator(twin, op, order2)
               ELSE twin
    /\ UNCHANGED <<earlier, sig>>

TranslateI32Const(m, value) ==
    Translate(m, "I32Const", value, <<>>, <<>>, <<>>)

TranslateDrop(m) == Translate(m, "Drop", 0, <<>>, <<>>, <<>>)

TranslateI32Add(m) == Translate(m, "I32Add", 0, <<>>, <<>>, <<>>)

TranslateNop(m) == Translate(m, "Nop", 0, <<>>, <<>>, <<>>)

TranslateUnreachable(m) ==
    Translate(m, "Unreachable", 0, <<>>, <<>>, <<>>)

TranslateBlock(m, ty) == Translate(m, "Block", ty, <<>>, <<>>, <<>>)

TranslateLoop(m, ty) == Translate(m, "Loop", ty, <<>>, <<>>, <<>>)

TranslateIf(m, ty) == Translate(m, "If", ty, <<>>, <<>>, <<>>)

TranslateElse(m) == Translate(m, "Else", 0, <<>>, <<>>, <<>>)

TranslateEnd(m) == Translate(m, "End", 0, <<>>, <<>>, <<>>)

TranslateBr(m, relative_depth) ==
    Translate(m, "Br", relative_depth, <<>>, <<>>, <<>>)

TranslateBrIf(m, relative_depth) ==
    Translate(m, "BrIf", relative_depth, <<>>, <<>>, <<>>)

\* The orders of the HashMap a br_table may build; none is built in
\* unreachable code.
HashMapOrders(depths) ==
    IF in_unreachable_code(State) THEN {<<>>} ELSE Orders(depths)

TranslateBrTable(m, depths, default) ==
    /\ ~aborted
    /\ nops < m.budget
    /\ m.checked => WellFormed(wf, Operator("BrTable", default, depths))
    /\ \E order \in HashMapOrders(depths) :
          \E order2 \in IF m.paired THEN HashMapOrders(depths) ELSE {order} :
              Translate(m, "BrTable", default, depths, order, order2)

TranslateReturn(m) == Translate(m, "Return", 0, <<>>, <<>>, <<>>)

TranslateGetGlobal(m, index) ==
    Translate(m, "GetGlobal", index, <<>>, <<>>, <<>>)

TranslateSetGlobal(m, index) ==
    Translate(m, "SetGlobal", index, <<>>, <<>>, <<>>)

TranslateCall(m, index) ==
    Translate(m, "Call", index, <<>>, <<>>, <<>>)

TranslateCallIndirect(m, index) ==
    Translate(m, "CallIndirect", index, <<>>, <<>>, <<>>)

TranslateGrowMemory(m, index) ==
    Translate(m, "GrowMemory", index, <<>>, <<>>, <<>>)

TranslateCurrentMemory(m, index) ==
    Translate(m, "CurrentMemory", index, <<>>, <<>>, <<>>)

TranslateI32Load(m, offset) ==
    Translate(m, "I32Load", offset, <<>>, <<>>, <<>>)

TranslateI32Store(m, offset) ==
    Translate(m, "I32Store", offset, <<>>, <<>>, <<>>)

\* The environment is given the guard size of the heaps it will make,
\* before it is used for a translation.
SetGuardSize(guard_size) ==
    /\ builder.position = 0
    /\ environ.guard_size = DefaultGuardSize
    /\ guard_size # DefaultGuardSize
    /\ environ' = [environ EXCEPT !.guard_size = guard_size]
    /\ UNCHANGED <<stack, control_stack, phantom_unreachable_stack_depth,
                   real_unreachable_stack_depth, globals, heaps, signatures,
                   functions, builder, aborted, debug_assertions, wf, nops,
                   last_op, dispatched, opened, exit_depth, returned, twin,
                   earlier, sig>>

RelDepths == 0..MaxRelDepth

\* The depth lists of one entry.
OneEntryTables == [1..1 -> RelDepths]

\* The relative depths that name an open construct of the body read so far.
OpenDepths == {k \in RelDepths : k < Len(wf.ctrl)}

\* The return values of the signatures of the functions translated: none
\* or one WebAssembly result.
Signatures == {<<>>, <<"Normal">>}

\* Up to MaxReturns return values of any purpose.
AnySignatures == {<<>>} \cup SeqsUpTo(Purposes, MaxReturns)

\* Structured control flow and branches.
Next ==
    \/ \E n \in Signatures, r \in BOOLEAN : StartFunction(Checked, n, r)
    \/ \E v \in ConstVals : TranslateI32Const(Checked, v)
    \/ TranslateDrop(Checked)
    \/ TranslateUnreachable(Checked)
    \/ \E ty \in BlockTypes : TranslateBlock(Checked, ty)
    \/ \E ty \in BlockTypes : TranslateLoop(Checked, ty)
    \/ \E ty \in BlockTypes : TranslateIf(Checked, ty)
    \/ TranslateElse(Checked)
    \/ TranslateEnd(Checked)
    \/ \E k \in RelDepths : TranslateBr(Checked, k)
    \/ \E k \in RelDepths : TranslateBrIf(Checked, k)
    \/ \E depths \in SeqsUpTo(OpenDepths, MaxTable), default \in OpenDepths :
          TranslateBrTable(Checked, depths, default)
    \/ TranslateReturn(Checked)

Spec == Init /\ [][Next]_vars

\* Any operator sequence, valid or not, in either build; a new function may
\* be started at any time.
NextAny ==
    \/ \E n \in Signatures, r \in BOOLEAN : StartFunction(Unchecked, n, r)
    \/ \E v \in ConstVals : TranslateI32Const(Unchecked, v)
    \/ TranslateDrop(Unchecked)
    \/ TranslateUnreachable(Unchecked)
    \/ \E ty \in BlockTypes : TranslateBlock(Unchecked, ty)
    \/ \E ty \in BlockTypes : TranslateLoop(Unchecked, ty)
    \/ \E ty \in BlockTypes : TranslateIf(Unchecked, ty)
    \/ TranslateElse(Unchecked)
    \/ TranslateEnd(Unchecked)
    \/ \E k \in RelDepths : TranslateBr(Unchecked, k)
    \/ \E k \in RelDepths : TranslateBrIf(Unchecked, k)
    \/ \E depths \in OneEntryTables, default \in RelDepths :
          TranslateBrTable(Unchecked, depths, default)
    \/ TranslateReturn(Unchecked)

SpecAny == InitAny /\ [][NextAny]_vars

\* Longer bodies over operand-stack operators, blocks, ifs and the two
\* simplest ways into unreachable code.
NextDeep ==
    \/ \E n \in Signatures, r \in BOOLEAN : StartFunction(Deep, n, r)
    \/ \E v \in ConstVals : TranslateI32Const(Deep, v)
    \/ TranslateDrop(Deep)
    \/ TranslateUnreachable(Deep)
    \/ \E ty \in BlockTypes : TranslateBlock(Deep, ty)
    \/ \E ty \in BlockTypes : TranslateIf(Deep, ty)
    \/ TranslateElse(Deep)
    \/ TranslateEnd(Deep)
    \/ \E k \in RelDepths : TranslateBr(Deep, k)

SpecDeep == Init /\ [][NextDeep]_vars

\* The depth lists long enough to name two distinct depths.
TwoDepthTables == [1..(MaxTable + 1) -> OpenDepths]

\* Bodies translated twice, the HashMap of each br_table yielding its
\* entries in an order chosen independently for each translation.
NextPaired ==
    \/ \E n \in Signatures, r \in BOOLEAN : StartFunction(Paired, n, r)
    \/ \E v \in ConstVals : TranslateI32Const(Paired, v)
    \/ \E ty \in BlockTypes : TranslateBlock(Paired, ty)
    \/ TranslateEnd(Paired)
    \/ \E depths \in TwoDepthTables, default \in OpenDepths :
          TranslateBrTable(Paired, depths, default)

SpecPaired == Init /\ [][NextPaired]_vars

\* Globals, calls and memory size operators inside blocks.
NextEntities ==
    \/ \E n \in Signatures, r \in BOOLEAN : StartFunction(Checked, n, r)
    \/ \E v \in ConstVals : TranslateI32Const(Checked, v)
    \/ \E ty \in BlockTypes : TranslateBlock(Checked, ty)
    \/ TranslateEnd(Checked)
    \/ \E i \in Indices : TranslateGetGlobal(Checked, i)
    \/ \E i \in Indices : TranslateSetGlobal(Checked, i)
    \/ \E i \in Indices : TranslateCall(Checked, i)
    \/ \E i \in Indices : TranslateCallIndirect(Checked, i)
    \/ \E i \in Indices : TranslateGrowMemory(Checked, i)
    \/ \E i \in Indices : TranslateCurrentMemory(Checked, i)

SpecEntities == Init /\ [][NextEntities]_vars

\* Several functions translated with one TranslationState: entity operators
\* in reachable and in unreachable code (both globals, function 0,
\* signature 0 and memory 0).
NextModule ==
    \/ \E n \in Signatures : StartFunction(Module, n, FALSE)
    \/ TranslateUnreachable(Module)
    \/ TranslateEnd(Module)
    \/ \E i \in Indices : TranslateGetGlobal(Module, i)
    \/ TranslateCall(Module, 0)
    \/ TranslateCallIndirect(Module, 0)
    \/ TranslateCurrentMemory(Module, 0)

SpecModule == Init /\ [][NextModule]_vars

\* A function started while the state still holds what the translation of
\* another one left: operands, frames, unreachable depths, cached entities.
NextReuse ==
    \/ \E returns \in AnySignatures : StartFunction(Reuse, returns, FALSE)
    \/ TranslateUnreachable(Reuse)
    \/ TranslateBlock(Reuse, 0)
    \/ TranslateGetGlobal(Reuse, 0)
    \/ TranslateCall(Reuse, 0)
    \/ TranslateCallIndirect(Reuse, 0)
    \/ TranslateCurrentMemory(Reuse, 0)

SpecReuse == Init /\ [][NextReuse]_vars

\* Any sequence of structured control operators, valid or not, in either
\* build.
NextMalformed ==
    \/ \E n \in Signatures : StartFunction(Malformed, n, FALSE)
    \/ \E v \in ConstVals : TranslateI32Const(Malformed, v)
    \/ TranslateUnreachable(Malformed)
    \/ \E ty \in BlockTypes : TranslateBlock(Malformed, ty)
    \/ \E ty \in BlockTypes : TranslateLoop(Malformed, ty)
    \/ \E ty \in BlockTypes : TranslateIf(Malformed, ty)
    \/ TranslateElse(Malformed)
    \/ TranslateEnd(Malformed)
    \/ \E k \in RelDepths : TranslateBr(Malformed, k)

SpecMalformed == InitAny /\ [][NextMalformed]_vars

\* The depth lists of two entries.
PairTables == OpenDepths \X OpenDepths

\* Blocks, constants and br_tables, each body read to its last End.
NextNested ==
    \/ StartFunction(Nested, <<>>, FALSE)
    \/ \E v \in ConstVals : TranslateI32Const(Nested, v)
    \/ \E ty \in BlockTypes : TranslateBlock(Nested, ty)
    \/ TranslateEnd(Nested)
    \/ \E depths \in PairTables, default \in OpenDepths :
          TranslateBrTable(Nested, depths, default)

SpecNested == Init /\ [][NextNested]_vars

\* The constants of the example with a dead constant.
DeadVals == {7, 9}

\* Operators that emit instructions, call the environment or open and
\* close constructs, before and behind a branch.
NextDead ==
    \/ StartFunction(Dead, <<"Normal">>, FALSE)
    \/ \E v \in DeadVals : TranslateI32Const(Dead, v)
    \/ TranslateBlock(Dead, 1)
    \/ TranslateIf(Dead, 0)
    \/ TranslateElse(Dead)
    \/ TranslateEnd(Dead)
    \/ TranslateBr(Dead, 0)
    \/ TranslateCall(Dead, 0)

SpecDead == Init /\ [][NextDead]_vars

\* Constructs, branches and operators that use entities, read whether or
\* not they are valid where they stand.
NextPhantom ==
    \/ \E n \in Signatures : StartFunction(Malformed, n, FALSE)
    \/ \E v \in ConstVals : TranslateI32Const(Malformed, v)
    \/ TranslateUnreachable(Malformed)
    \/ \E ty \in BlockTypes : TranslateBlock(Malformed, ty)
    \/ \E ty \in BlockTypes : TranslateLoop(Malformed, ty)
    \/ \E ty \in BlockTypes : TranslateIf(Malformed, ty)
    \/ TranslateElse(Malformed)
    \/ TranslateEnd(Malformed)
    \/ \E k \in RelDepths : TranslateBr(Malformed, k)
    \/ TranslateGetGlobal(Malformed, 0)
    \/ TranslateCall(Malformed, 0)

SpecPhantom == Init /\ [][NextPhantom]_vars

\* Memory accesses at every offset on a heap of any guard size.
NextMemory ==
    \/ \E g \in GuardSizes : SetGuardSize(g)
    \/ \E n \in Signatures : StartFunction(Memory, n, FALSE)
    \/ \E v \in ConstVals : TranslateI32Const(Memory, v)
    \/ TranslateEnd(Memory)
    \/ \E offset \in Offsets : TranslateI32Load(Memory, offset)
    \/ \E offset \in Offsets : TranslateI32Store(Memory, offset)

SpecMemory == Init /\ [][NextMemory]_vars

\* Reads and writes of globals, whichever way the environment materializes
\* them and whatever the operand stack holds, in either build.
NextGlobals ==
    \/ \E n \in Signatures : StartFunction(Unchecked, n, FALSE)
    \/ \E v \in ConstVals : TranslateI32Const(Unchecked, v)
    \/ TranslateEnd(Unchecked)
    \/ \E i \in Indices : TranslateGetGlobal(Unchecked, i)
    \/ \E i \in Indices : TranslateSetGlobal(Unchecked, i)

SpecGlobals == InitAny /\ [][NextGlobals]_vars

\* One operation on the operand stack, as the arms of translate_operator
\* call them.
StackOperation(name, n, s) ==
    /\ ~aborted
    /\ nops < MaxOps + 2
    /\ Install(s)
    /\ nops' = nops + 1
    /\ last_op' = Operator(name, n, <<>>)
    /\ dispatched' = "stack"
    /\ UNCHANGED <<wf, opened, exit_depth, returned, twin, earlier, sig>>

StackPush1(val) == StackOperation("push1", val, push1(State, val))

StackPop1 == StackOperation("pop1", 1, pop1(State))

StackPeek1 == StackOperation("peek1", 1, peek1(State))

StackPop2 == StackOperation("pop2", 2, pop2(State))

StackPop3 == StackOperation("pop3", 3, pop3(State))

StackPopn(n) == StackOperation("popn", n, popn(State, n))

StackPeekn(n) == StackOperation("peekn", n, peekn_index(State, n))

\* The operand stack operations in any order, in either build.
NextStack ==
    \/ \E v \in ConstVals : StackPush1(v)
    \/ StackPop1
    \/ StackPeek1
    \/ StackPop2
    \/ StackPop3
    \/ \E n \in 0..MaxCount : StackPopn(n)
    \/ \E n \in 0..MaxCount : StackPeekn(n)

SpecStack == InitAny /\ [][NextStack]_vars

\* ============================================================== properties
\* C1: whatever operators are translated, valid or not and in either build,
\* a positive phantom depth comes with a positive real depth, so the debug
\* assertion of in_unreachable_code never fails.
C1_PhantomImpliesReal ==
    /\ phantom_unreachable_stack_depth > 0 => real_unreachable_stack_depth > 0
    /\ ~in_unreachable_code_assert_fails(State)

\* An End handled in unreachable code has closed a phantom construct while
\* another one is still open.
C1_Witness ==
    /\ dispatched = "unreachable"
    /\ last_op.op = "End"
    /\ phantom_unreachable_stack_depth > 0
    /\ real_unreachable_stack_depth > 0
    /\ ~aborted

\* C2: in a well-formed body, once the Ends matching an unreachable region
\* (entered by unreachable, br, br_table or return) have been read, both
\* unreachable depths are 0; they are 0 after the End of the function frame.
C2_ReachabilityRestored ==
    ~aborted =>
        /\ (exit_depth >= 0 /\ Len(wf.ctrl) <= exit_depth) =>
                /\ real_unreachable_stack_depth = 0
                /\ phantom_unreachable_stack_depth = 0
        /\ Len(wf.ctrl) = 0 =>
                /\ real_unreachable_stack_depth = 0
                /\ phantom_unreachable_stack_depth = 0

\* A br to the function frame from inside a block, then the Ends of the
\* block and of the function, both handled in unreachable code.
C2_Witness ==
    /\ ~aborted
    /\ dispatched = "unreachable"
    /\ last_op.op = "End"
    /\ exit_depth = 0
    /\ Len(wf.ctrl) = 0
    /\ Len(builder.ebbs) >= 3
    /\ \E i \in 1..Len(builder.insts) :
          /\ builder.insts[i].opcode = "jump"
          /\ builder.insts[i].ebb = EntryEbb
          /\ builder.insts[i].dest = ExitEbb

\* C3: every Block, Loop or If of a well-formed body is either a frame of
\* the control stack or counted in the phantom depth, and the End that
\* closes it leaves the control stack at the depth it had before the
\* opening operator, whichever dispatcher handled the opening and the End.
C3_DepthRestored ==
    /\ [](~aborted =>
            Len(opened) = Len(control_stack) + phantom_unreachable_stack_depth)
    /\ [][(nops' = nops + 1 /\ last_op'.op = "End") =>
            /\ ~aborted'
            /\ Len(control_stack') = Last(opened)
            /\ opened' = Front(opened)]_vars

\* The End of a construct opened in unreachable code: no Ebb was created
\* for it and the function frame is still open.
C3_Witness ==
    /\ ~aborted
    /\ dispatched = "unreachable"
    /\ last_op.op = "End"
    /\ Len(builder.ebbs) = 2
    /\ Len(control_stack) = 1
    /\ Len(opened) = 1

\* Whether a function translation has begun.
Started == builder.position # 0

\* C4 as stated: from initialize on, including after the last End, the
\* control stack is non-empty and its bottom frame is the Block frame of the
\* exit block.
C4_NonEmptyThroughout ==
    (Started /\ ~aborted) =>
        /\ Len(control_stack) >= 1
        /\ control_stack[1].kind = "Block"
        /\ control_stack[1].destination = ExitEbb

\* C4 amended: the control stack is non-empty after initialize and after
\* every operator but the body's last End, which pops the function frame
\* and leaves it empty; while non-empty, its bottom frame is the Block
\* frame of the exit block.
C4_NonEmptyUntilLastEnd ==
    (Started /\ ~aborted) =>
        /\ Len(control_stack) >= 1 <=> Len(wf.ctrl) >= 1
        /\ Len(control_stack) >= 1 =>
                /\ control_stack[1].kind = "Block"
                /\ control_stack[1].destination = ExitEbb

\* The body's last End has been translated.
C4_Witness ==
    /\ Started
    /\ ~aborted
    /\ last_op.op = "End"
    /\ Len(wf.ctrl) = 0
    /\ control_stack = <<>>

\* C5: in a well-formed body, whenever the next operator goes to the
\* reachable dispatcher, the operand stack is at least as long as the
\* innermost frame's original_stack_size, also just after an End or Else
\* handled in unreachable code has made the code reachable again.
C5_StackAboveFrame ==
    (~aborted /\ real_unreachable_stack_depth = 0 /\ Len(control_stack) >= 1)
        => Len(stack) >= Last(control_stack).original_stack_size

\* An End or Else handled in unreachable code has made the code reachable
\* again inside a frame that was pushed over a non-empty operand stack.
C5_Witness ==
    /\ ~aborted
    /\ dispatched = "unreachable"
    /\ last_op.op \in {"End", "Else"}
    /\ real_unreachable_stack_depth = 0
    /\ Len(control_stack) >= 2
    /\ Last(control_stack).original_stack_size >= 1

\* The Ebbs that are the destination or the loop header of a frame of the
\* control stack.
PendingEbbs ==
    {control_stack[i].destination : i \in 1..Len(control_stack)}
    \cup {control_stack[i].header :
              i \in {j \in 1..Len(control_stack) :
                         control_stack[j].kind = "Loop"}}

\* C6: in a well-formed body no Ebb is sealed twice, the Ebbs not yet sealed
\* are those a frame of the control stack will seal at its End, and once
\* the function's last End has been translated every Ebb (destinations,
\* loop headers, else blocks, br_table trampolines, the exit block) has
\* been sealed exactly once, on reachable and unreachable paths alike.
C6_SealedExactlyOnce ==
    (Started /\ ~aborted) =>
        /\ \A ebb \in 1..Len(builder.ebbs) :
              /\ builder.ebbs[ebb].sealed <= 1
              /\ builder.ebbs[ebb].sealed = 0 <=> ebb \in PendingEbbs
        /\ Len(wf.ctrl) = 0 =>
              \A ebb \in 1..Len(builder.ebbs) : builder.ebbs[ebb].sealed = 1

\* The function's last End, handled in unreachable code, after a br_table
\* with jump arguments whose table goes through a trampoline.
C6_Witness ==
    /\ Started
    /\ ~aborted
    /\ Len(wf.ctrl) = 0
    /\ last_op.op = "End"
    /\ dispatched = "unreachable"
    /\ \E i \in 1..Len(builder.insts) :
          /\ builder.insts[i].opcode = "br_table"
          /\ \E k \in 1..Len(builder.insts[i].table) :
                builder.insts[i].table[k] > ExitEbb

\* A step that translates a br_table in reachable code without a panic.
BrTableStep ==
    /\ nops' = nops + 1
    /\ last_op'.op = "BrTable"
    /\ dispatched' = "reachable"
    /\ ~aborted'

\* The br_table instruction such a step inserts.
BrTableInst ==
    CHOOSE j \in (Len(builder.insts) + 1)..Len(builder'.insts) :
        builder'.insts[j].opcode = "br_table"

\* Ebb e is dest itself or a block holding a jump to dest.
LeadsTo(b, e, dest) ==
    \/ e = dest
    \/ \E j \in 1..Len(b.insts) :
          /\ b.insts[j].ebb = e
          /\ b.insts[j].opcode = "jump"
          /\ b.insts[j].dest = dest

\* The frame a relative depth names when the br_table is read.
TargetIndex(depth) == Len(control_stack) - depth

\* C7 as stated: each depth listed by a br_table translated in reachable
\* code gives the destination of its target frame a predecessor edge
\* (its table entry is that Ebb or a block that jumps to it), and the
\* target frame is marked reachable.
C7_EdgeToDestination ==
    [][BrTableStep =>
        \A k \in 1..Len(last_op'.table) :
            LET i == TargetIndex(last_op'.table[k])
            IN /\ LeadsTo(builder', builder'.insts[BrTableInst].table[k],
                          control_stack[i].destination)
               /\ control_stack'[i].reachable]_vars

\* C7 amended: the edge goes to the frame's branch destination, which is
\* the header for a Loop frame and the destination otherwise.
C7_EdgeToBrDestination ==
    [][BrTableStep =>
        \A k \in 1..Len(last_op'.table) :
            LET i == TargetIndex(last_op'.table[k])
            IN /\ LeadsTo(builder', builder'.insts[BrTableInst].table[k],
                          br_destination(control_stack[i]))
               /\ control_stack'[i].reachable]_vars

\* A br_table translated in reachable code lists a Loop frame, which is
\* now marked reachable.
C7_Witness ==
    /\ ~aborted
    /\ last_op.op = "BrTable"
    /\ dispatched = "reachable"
    /\ \E k \in 1..Len(last_op.table) :
          LET i == Len(control_stack) - last_op.table[k]
          IN /\ control_stack[i].kind = "Loop"
             /\ control_stack[i].reachable

\* The number of jump arguments of the br_table being read.
JumpArgsCount ==
    LET min_depth == br_table_min_depth(last_op'.table, 1, last_op'.arg)
        frame == control_stack[TargetIndex(min_depth)]
    IN IF is_loop(frame) THEN 0 ELSE frame.num_return_values

\* C8 as stated: for a br_table with jump arguments, the jump that follows
\* the br_table goes to a newly created trampoline, which jumps to the
\* default frame's branch destination with the same number of values, and
\* the default frame is marked reachable, whether or not the default depth
\* is among the listed depths.
C8_DefaultThroughTrampoline ==
    [][(BrTableStep /\ JumpArgsCount > 0) =>
        LET i == TargetIndex(last_op'.arg)
            after == builder'.insts[BrTableInst + 1]
        IN /\ after.opcode = "jump"
           /\ after.dest > Len(builder.ebbs)
           /\ \E j \in 1..Len(builder'.insts) :
                 /\ builder'.insts[j].ebb = after.dest
                 /\ builder'.insts[j].opcode = "jump"
                 /\ builder'.insts[j].dest = br_destination(control_stack[i])
                 /\ Len(builder'.insts[j].args) = JumpArgsCount
           /\ control_stack'[i].reachable]_vars

\* The Ebbs of a function with their parameters and the instructions each
\* holds, in order.
Blocks(b) ==
    [ebb \in 1..Len(b.ebbs) |->
        [params |-> b.ebbs[ebb].params, sealed |-> b.ebbs[ebb].sealed,
         filled |-> b.ebbs[ebb].filled, insts |-> EbbInsts(b, ebb)]]

\* The fields of TranslationState.
Fields(s) ==
    <<s.stack, s.control_stack, s.phantom_unreachable_stack_depth,
      s.real_unreachable_stack_depth, s.globals, s.heaps, s.signatures,
      s.functions>>

CacheKinds == {"globals", "heaps", "signatures", "functions"}

\* C10: within one function translation all get_global, get_heap,
\* get_indirect_sig and get_direct_func calls with the same index return
\* the same entry (handle and argument count), which is the cached one,
\* and an entry of a cache does not change until the next initialize.
C10_CacheIdempotent ==
    /\ [](\A kind \in CacheKinds : \A i \in Indices :
            returned[kind][i] \subseteq {Cache(State, kind)[i]})
    /\ [][nops' # 0 =>
            \A kind \in CacheKinds : \A i \in Indices :
                Cache(State, kind)[i] # None =>
                    Cache(State, kind)[i]' = Cache(State, kind)[i]]_vars

\* Global 0 has been read twice and global 1 once: make_global was called
\* once for each index.
C10_Witness ==
    /\ ~aborted
    /\ environ.calls["make_global"][0] = 1
    /\ environ.calls["make_global"][1] = 1
    /\ returned["globals"][0] # {}
    /\ Cardinality({j \in 1..Len(builder.insts) :
                        builder.insts[j].opcode = "global_addr"}) = 2

\* The environment method that fills a cache.
MakeOf(kind) ==
    CASE kind = "globals" -> "make_global"
      [] kind = "heaps" -> "make_heap"
      [] kind = "signatures" -> "make_indirect_sig"
      [] kind = "functions" -> "make_direct_func"

\* A step that translates one operator.
OperatorStep == nops' = nops + 1

\* C11: within one function translation each make_* method is called at
\* most once per index, exactly for the indices that are cached; an
\* operator handled in unreachable code calls none; and in a function
\* translated after another one, the first reachable use of an index calls
\* the environment, whether or not the earlier function used that index.
C11_MakeOncePerFunction ==
    /\ [](\A kind \in CacheKinds : \A i \in Indices :
            /\ environ.calls[MakeOf(kind)][i] <= 1
            /\ environ.calls[MakeOf(kind)][i] = 1
                    <=> Cache(State, kind)[i] # None)
    /\ [][(OperatorStep /\ dispatched' = "unreachable") =>
            environ'.calls = environ.calls]_vars
    /\ [][(OperatorStep /\ dispatched' = "reachable"
            /\ CacheOf(last_op') # "") =>
            LET make == MakeOf(CacheOf(last_op'))
                i == last_op'.arg
            IN /\ environ'.calls[make][i] = 1
               /\ Cache(State, CacheOf(last_op'))[i] # None =>
                      environ'.calls = environ.calls]_vars

\* In the second function of a module, global 0, which the first function
\* had used, has been used and make_global has been called for it again; an
\* entity operator has also been skipped in unreachable code.
C11_Witness ==
    /\ ~aborted
    /\ earlier.functions = 1
    /\ earlier.left.calls["make_global"][0] = 1
    /\ environ.calls["make_global"][0] = 1
    /\ dispatched = "unreachable"
    /\ last_op.op \in {"GetGlobal", "Call", "CallIndirect", "CurrentMemory"}

\* A step that starts the translation of a function.
StartStep == nops' = 0 /\ builder'.position # 0

\* C12: whatever the state holds when a function is started, after
\* initialize the operand stack is empty, both unreachable depths are 0,
\* the four caches are empty, and the control stack is one Block frame whose
\* destination is the exit block, whose num_return_values is the number of
\* Normal returns of the signature, whose original_stack_size is 0 and
\* which is not marked reachable.
C12_InitializeResets ==
    [][StartStep =>
        /\ stack' = <<>>
        /\ phantom_unreachable_stack_depth' = 0
        /\ real_unreachable_stack_depth' = 0
        /\ \A kind \in CacheKinds : \A i \in Indices :
              Cache(State, kind)[i]' = None
        /\ Len(control_stack') = 1
        /\ control_stack'[1].kind = "Block"
        /\ control_stack'[1].destination = ExitEbb
        /\ control_stack'[1].num_return_values =
              Len(SelectSeq(sig', LAMBDA p : p = "Normal"))
        /\ control_stack'[1].original_stack_size = 0
        /\ ~control_stack'[1].reachable]_vars

\* A function whose signature returns a Normal and a Link value has been
\* started on a state left in unreachable code, with an operand on the
\* stack, the frame of the function before and global 0 cached.
C12_Witness ==
    /\ ~aborted
    /\ nops = 0
    /\ earlier.functions = 1
    /\ earlier.left.stack
    /\ earlier.left.control_stack
    /\ earlier.left.real
    /\ earlier.left.calls["make_global"][0] = 1
    /\ sig = <<"Normal", "Link">>
    /\ Len(control_stack) = 1
    /\ control_stack[1].num_return_values = 1

Marks(i) ==
    CASE last_op'.op \in {"Br", "BrIf"} -> i = TargetIndex(last_op'.arg)
      [] last_op'.op = "Return" -> i = 1
      [] last_op'.op = "BrTable" ->
            \/ \E k \in 1..Len(last_op'.table) :
                  i = TargetIndex(last_op'.table[k])
            \/ i = TargetIndex(last_op'.arg) /\ JumpArgsCount = 0
      [] OTHER -> FALSE

\* The frames that are on the control stack before and after a step.
Kept ==
    1..(IF Len(control_stack') < Len(control_stack)
        THEN Len(control_stack') ELSE Len(control_stack))

UnreachableStep ==
    OperatorStep /\ dispatched' = "unreachable" /\ ~aborted'

\* C14 as stated: the real depth is 0 exactly when the operator goes to the
\* reachable dispatcher, and a depth N > 0 is lowered by one by each End of
\* a frame (an End met at phantom depth 0) and by nothing else, so that the
\* code stays unreachable until the N-th such End.
C14_CountsDownByEnds ==
    /\ [][OperatorStep =>
            (dispatched' = "reachable" <=> real_unreachable_stack_depth = 0)
        ]_vars
    /\ [][UnreachableStep =>
            real_unreachable_stack_depth' =
                IF last_op'.op = "End" /\ phantom_unreachable_stack_depth = 0
                THEN real_unreachable_stack_depth - 1
                ELSE real_unreachable_stack_depth]_vars

\* C14 amended: the real depth is 0 exactly when the operator goes to the
\* reachable dispatcher; while it is N > 0 no instruction is emitted and N
\* is at most the number of frames, so at most N Ends of frames are read
\* before the code is reachable again. The End of a frame lowers the depth
\* by one, except that the End of an If frame or of a frame marked
\* reachable, and an Else at phantom depth 0, make it 0 at once; no other
\* operator changes it.
C14_CountsDownOrResets ==
    /\ [](~aborted => real_unreachable_stack_depth <= Len(control_stack))
    /\ [][OperatorStep =>
            (dispatched' = "reachable" <=> real_unreachable_stack_depth = 0)
        ]_vars
    /\ [][UnreachableStep =>
            /\ Len(builder'.insts) = Len(builder.insts)
            /\ real_unreachable_stack_depth' =
                  IF phantom_unreachable_stack_depth > 0
                  THEN real_unreachable_stack_depth
                  ELSE CASE last_op'.op = "End" ->
                              IF \/ Last(control_stack).kind = "If"
                                 \/ Last(control_stack).reachable
                              THEN 0
                              ELSE real_unreachable_stack_depth - 1
                         [] last_op'.op = "Else" -> 0
                         [] OTHER -> real_unreachable_stack_depth]_vars

\* After a branch out of two or more constructs, the End of the innermost
\* one, an If, has made the code reachable again before the other Ends
\* were read.
C14_Witness ==
    /\ ~aborted
    /\ dispatched = "unreachable"
    /\ last_op.op = "End"
    /\ real_unreachable_stack_depth = 0
    /\ exit_depth >= 0
    /\ Len(wf.ctrl) > exit_depth
    /\ \E j \in 1..Len(builder.insts) : builder.insts[j].opcode = "brz"

\* The operator being read is an Else whose innermost open construct is
\* not an If, or an End with no construct open.
MalformedStep ==
    /\ OperatorStep
    /\ \/ /\ last_op'.op = "Else"
          /\ Len(wf.ctrl) = 0 \/ vtop(wf).kind \notin {"If", "Else"}
       \/ last_op'.op = "End" /\ Len(wf.ctrl) = 0

\* C15 as stated: an Else whose innermost open construct is not an If and
\* an End with no open construct abort the translation, in reachable code
\* and in unreachable code at any phantom depth.
C15_MalformedAborts ==
    [][MalformedStep => aborted']_vars

\* C15, what does hold: such an Else or End aborts the translation when it
\* is read in reachable code or in unreachable code at phantom depth 0; at
\* a positive phantom depth the Else is accepted and changes nothing.
C15_AbortsOutsidePhantom ==
    [][MalformedStep =>
        IF phantom_unreachable_stack_depth = 0 THEN aborted'
        ELSE /\ ~aborted'
             /\ program_vars' = program_vars]_vars

\* An Else read in unreachable code inside a block that was opened there
\* has been accepted.
C15_Witness ==
    /\ ~aborted
    /\ last_op.op = "Else"
    /\ dispatched = "unreachable"
    /\ phantom_unreachable_stack_depth > 0
    /\ vtop(wf).kind = "Block"

\* A step that pops or peeks more values than the operand stack holds.
UnderflowStep ==
    /\ OperatorStep
    /\ last_op'.op \in {"pop1", "peek1", "pop2", "pop3", "popn", "peekn"}
    /\ last_op'.arg > Len(stack)

\* C16 as stated: pop1, pop2, pop3, popn(n), peek1 and peekn(n) end in a
\* panic whenever the operand stack holds fewer values than they ask for.
C16_UnderflowAborts ==
    [][UnderflowStep => aborted']_vars

\* C16, what does hold: they all panic on underflow, except popn in a build
\* without overflow checks, which returns with the stack unchanged.
C16_UnderflowAbortsButPopn ==
    [][UnderflowStep =>
        IF last_op'.op = "popn" /\ ~debug_assertions
        THEN ~aborted' /\ stack' = stack
        ELSE aborted']_vars

\* popn has returned normally although it was asked for more values than
\* the stack, which is not empty, holds.
C16_Witness ==
    /\ ~aborted
    /\ last_op.op = "popn"
    /\ stack # <<>>
    /\ last_op.arg > Len(stack)

\* A step that translates a set_global in reachable code.
SetGlobalStep ==
    /\ OperatorStep
    /\ last_op'.op = "SetGlobal"
    /\ dispatched' = "reachable"

\* C17: set_global on a global the environment gives as Const panics
\* without emitting an instruction and without touching the operand stack;
\* on a global in memory, with an operand on the stack, it pops that one
\* value and emits a store of it to the address of the global.
C17_SetGlobal ==
    [][SetGlobalStep =>
        IF GlobalIsConst(last_op'.arg)
        THEN /\ aborted'
             /\ builder'.insts = builder.insts
             /\ stack' = stack
        ELSE stack # <<>> =>
             /\ ~aborted'
             /\ stack' = Front(stack)
             /\ Len(builder'.insts) = Len(builder.insts) + 2
             /\ LET addr == builder'.insts[Len(builder.insts) + 1]
                    store == builder'.insts[Len(builder.insts) + 2]
                IN /\ addr.opcode = "global_addr"
                   /\ addr.imm = globals'[last_op'.arg].gv
                   /\ store.opcode = "store"
                   /\ store.args = <<Last(stack), addr.result>>]_vars

\* A set_global on the constant global has ended the translation with two
\* operands still on the stack.
C17_Witness ==
    /\ aborted
    /\ last_op.op = "SetGlobal"
    /\ dispatched = "reachable"
    /\ GlobalIsConst(last_op.arg)
    /\ Len(stack) = 2

\* A step that translates a load or a store in reachable code with the
\* operands it needs on the stack.
MemoryStep ==
    /\ OperatorStep
    /\ dispatched' = "reachable"
    /\ \/ last_op'.op = "I32Load" /\ Len(stack) >= 1
       \/ last_op'.op = "I32Store" /\ Len(stack) >= 2

\* The instructions a step has inserted.
Inserted == SubSeq(builder'.insts, Len(builder.insts) + 1, Len(builder'.insts))

\* C18: for every offset and every guard size G > 0 the size given to
\* heap_addr is min(largest u32, 1 + (offset div G) * G), a value
\* of the u32 range; with a guard size of 0 or less the translation
\* panics and no instruction is inserted.
C18_CheckSize ==
    [][MemoryStep =>
        LET G == environ.guard_size
            offset == last_op'.arg
            bound == 1 + (offset \div G) * G
        IN IF G > 0
           THEN /\ ~aborted'
                /\ Inserted[1].opcode = "heap_addr"
                /\ Inserted[1].imm =
                      IF bound > u32_max_value THEN u32_max_value ELSE bound
                /\ Inserted[1].imm \in 0..u32_max_value
           ELSE /\ aborted'
                /\ Inserted = <<>>]_vars

\* A load at the largest offset on a heap with a guard size of 1: the size
\* checked is the largest u32, not the wrapped sum.
C18_Witness ==
    /\ ~aborted
    /\ last_op.op = "I32Load"
    /\ last_op.arg = u32_max_value
    /\ environ.guard_size = 1
    /\ \E j \in 1..Len(builder.insts) :
          /\ builder.insts[j].opcode = "heap_addr"
          /\ builder.insts[j].imm = u32_max_value

\* The load or store instruction a step has inserted, and the value it
\* uses as base address.
Access == Inserted[Len(Inserted)]

AccessBase == Access.args[Len(Access.args)]

\* C19: the load or store is given a base and an offset immediate whose sum
\* is the heap_addr result plus the offset: for an offset above the largest
\* i32 the base is the heap_addr result plus exactly that value plus one
\* and the immediate is the offset minus the same; otherwise the base is
\* the heap_addr result and the immediate is the offset. The immediate is
\* never negative and never above the largest i32.
C19_BaseAndOffset ==
    [][(MemoryStep /\ ~aborted') =>
        LET offset == last_op'.arg
            addr == Inserted[1]
        IN /\ addr.opcode = "heap_addr"
           /\ Access.opcode \in {"load", "store"}
           /\ Access.imm \in 0..i32_max_value
           /\ IF offset > i32_max_value
              THEN /\ Len(Inserted) = 3
                   /\ Inserted[2].opcode = "iadd_imm"
                   /\ Inserted[2].args = <<addr.result>>
                   /\ Inserted[2].imm = i32_max_value + 1
                   /\ AccessBase = Inserted[2].result
                   /\ Inserted[2].imm + Access.imm = offset
              ELSE /\ Len(Inserted) = 2
                   /\ AccessBase = addr.result
                   /\ Access.imm = offset]_vars

\* A store at the smallest offset above the largest i32: the base has been
\* adjusted and the immediate is 0.
C19_Witness ==
    /\ ~aborted
    /\ last_op.op = "I32Store"
    /\ last_op.arg = i32_max_value + 1
    /\ \E j \in 1..Len(builder.insts) :
          /\ builder.insts[j].opcode = "store"
          /\ builder.insts[j].imm = 0
          /\ \E k \in 1..Len(builder.insts) :
                /\ builder.insts[k].opcode = "iadd_imm"
                /\ builder.insts[k].result = builder.insts[j].args[2]

\* The step of `block; block; i32.const 0; br_table 0 1 0` that translates
\* the br_table: two blocks without result are open in the function, three
\* operators have been read, and the table lists depths 0 and 1 with
\* default 0.
ExampleStep ==
    /\ OperatorStep
    /\ nops = 3
    /\ Len(control_stack) = 3
    /\ \A i \in 2..3 : /\ control_stack[i].kind = "Block"
                        /\ control_stack[i].num_return_values = 0
    /\ last_op' = Operator("BrTable", 0, <<0, 1>>)
    /\ dispatched' = "reachable"

\* The branch destinations of the inner and of the outer block.
Inner == br_destination(control_stack[3])

Outer == br_destination(control_stack[2])

\* The br_table passes only its selector and is followed by a jump without
\* arguments to the default target, the inner block's destination.
ExampleEdges ==
    /\ ~aborted'
    /\ Len(Inserted) = 2
    /\ Inserted[1].opcode = "br_table"
    /\ Len(Inserted[1].args) = 1
    /\ Inserted[2].opcode = "jump"
    /\ Inserted[2].dest = Inner
    /\ Inserted[2].args = <<>>

\* C20 as stated: the jump table built for the example has three entries,
\* for the inner, outer and inner block; no edge carries an argument and
\* a jump to the default target follows.
C20_ThreeEntries ==
    [][ExampleStep =>
        /\ ExampleEdges
        /\ Inserted[1].table = <<Inner, Outer, Inner>>]_vars

\* C20 amended: the jump table has one entry per listed depth, two here,
\* for the inner and the outer block; the default target is reached by the
\* jump that follows and has no entry of its own.
C20_TwoEntries ==
    [][ExampleStep =>
        /\ ExampleEdges
        /\ Inserted[1].table = <<Inner, Outer>>]_vars

\* The whole example has been translated: seven operators read, every
\* frame closed, and the function holds a br_table over two distinct
\* blocks other than the exit block, neither taking a parameter, followed
\* by a jump without arguments to the first of them.
C20_Witness ==
    /\ ~aborted
    /\ nops = 7
    /\ control_stack = <<>>
    /\ \E j \in 1..(Len(builder.insts) - 1) :
          LET table == builder.insts[j].table
          IN /\ builder.insts[j].opcode = "br_table"
             /\ Len(table) = 2
             /\ Cardinality({table[1], table[2], ExitEbb}) = 3
             /\ \A k \in 1..2 : ebb_params(builder, table[k]) = <<>>
             /\ builder.insts[j + 1].opcode = "jump"
             /\ builder.insts[j + 1].dest = table[1]
             /\ builder.insts[j + 1].args = <<>>

\* The function body so far is `loop`: one operator read, a Loop frame
\* without result on the function's frame.
AfterLoop ==
    /\ Len(control_stack) = 2
    /\ control_stack[2].kind = "Loop"
    /\ control_stack[2].num_return_values = 0

\* The step of `loop; br 0; end` that translates the br.
LoopBrStep ==
    /\ OperatorStep
    /\ nops = 1
    /\ AfterLoop
    /\ last_op' = Operator("Br", 0, <<>>)

\* The step of `loop; br 0; end` that translates the loop's End.
LoopEndStep ==
    /\ OperatorStep
    /\ nops = 2
    /\ AfterLoop
    /\ last_op = Operator("Br", 0, <<>>)
    /\ last_op'.op = "End"

\* The br of the example inserts one jump to the loop header, without
\* arguments, and leaves the real depth at 1; the End then finds that depth
\* and seals the header and the destination of the loop.
LoopExample ==
    /\ [][LoopBrStep =>
            /\ Len(Inserted) = 1
            /\ Inserted[1].opcode = "jump"
            /\ Inserted[1].ebb = control_stack[2].header
            /\ Inserted[1].dest = control_stack[2].header
            /\ Inserted[1].args = <<>>
            /\ real_unreachable_stack_depth' = 1]_vars
    /\ [][LoopEndStep =>
            /\ real_unreachable_stack_depth = 1
            /\ dispatched' = "unreachable"
            /\ Inserted = <<>>
            /\ control_stack' = Front(control_stack)
            /\ builder'.ebbs[control_stack[2].header].sealed = 1
            /\ builder'.ebbs[control_stack[2].destination].sealed = 1
            /\ builder'.position = control_stack[2].destination]_vars

\* C21 as stated: in `loop; br 0; end` the br jumps from the loop body to
\* the header and leaves the real depth at 1; the loop's End seals the
\* header and the destination, and since no branch targets the function's
\* frame the code after that End stays unreachable.
C21_StaysUnreachable ==
    /\ LoopExample
    /\ [][LoopEndStep =>
            (~control_stack[1].reachable =>
                real_unreachable_stack_depth' > 0)]_vars

\* C21, what does hold: the End resumes reachability when the frame it
\* pops, the loop, is marked reachable, which the br to its header has
\* done: the code after the loop's End is translated as reachable code
\* although no instruction branches to the loop's destination.
C21_ResumesAfterLoop ==
    /\ LoopExample
    /\ [][LoopEndStep =>
            /\ control_stack[2].reachable
            /\ ~control_stack[1].reachable
            /\ real_unreachable_stack_depth' = 0
            /\ predecessors(builder', control_stack[2].destination) = {}
         ]_vars

\* `loop; br 0; end` has been translated and the translator is in
\* reachable code, in the loop's destination, which nothing jumps to.
C21_Witness ==
    /\ ~aborted
    /\ nops = 3
    /\ last_op.op = "End"
    /\ dispatched = "unreachable"
    /\ Len(control_stack) = 1
    /\ ~control_stack[1].reachable
    /\ real_unreachable_stack_depth = 0
    /\ predecessors(builder, builder.position) = {}
    /\ \E j \in 1..Len(builder.insts) :
          /\ builder.insts[j].opcode = "jump"
          /\ builder.insts[j].dest = builder.insts[j].ebb

\* Instruction now is instruction was, but for the target of its branch.
Retargeted(was, now) == now = [was EXCEPT !.dest = now.dest]

\* Block now is block was, but for the number of times it was sealed.
Resealed(was, now) == now = [was EXCEPT !.sealed = now.sealed]

\* The End of the block of `block (result i32); i32.const 7; br 0;
\* i32.const 9; end; end` is about to be read: four operators read, the
\* last of them a constant in unreachable code, the block's frame on the
\* function's, and the instructions so far a constant 7 and a jump.
AtDeadBlockEnd ==
    /\ nops = 4
    /\ last_op.op = "I32Const"
    /\ dispatched = "unreachable"
    /\ Len(control_stack) = 2
    /\ control_stack[2].kind = "Block"
    /\ control_stack[2].num_return_values = 1
    /\ Len(builder.insts) = 2
    /\ builder.insts[1].opcode = "iconst"
    /\ builder.insts[1].imm = 7

\* C22: an operator read in unreachable code inserts no instruction,
\* defines no value and calls no operation of the environment; in the
\* builder it can only create a block, retarget the branch recorded by an
\* If, switch to a block and seal blocks. In the example the constant
\* behind the br is not translated, and the block's destination has one
\* predecessor, the jump of the br, which carries the constant 7.
C22_DeadCodeEmitsNothing ==
    /\ [][UnreachableStep =>
            /\ Len(builder'.insts) = Len(builder.insts)
            /\ \A j \in 1..Len(builder.insts) :
                  \/ builder'.insts[j] = builder.insts[j]
                  \/ /\ last_op'.op = "Else"
                     /\ j = Last(control_stack).branch_inst
                     /\ Retargeted(builder.insts[j], builder'.insts[j])
            /\ builder'.nvalues = builder.nvalues
            /\ \A e \in DOMAIN builder.ebbs :
                  Resealed(builder.ebbs[e], builder'.ebbs[e])
            /\ \A e \in DOMAIN builder'.ebbs \ DOMAIN builder.ebbs :
                  Resealed(NewEbb, builder'.ebbs[e])
            /\ environ' = environ
            /\ <<globals, heaps, signatures, functions>>' =
                  <<globals, heaps, signatures, functions>>]_vars
    /\ [](AtDeadBlockEnd =>
            /\ builder.insts[2].opcode = "jump"
            /\ builder.insts[2].dest = control_stack[2].destination
            /\ builder.insts[2].args = <<builder.insts[1].result>>)
    /\ [][(AtDeadBlockEnd /\ OperatorStep /\ last_op'.op = "End") =>
            /\ dispatched' = "unreachable"
            /\ real_unreachable_stack_depth' = 0
            /\ predecessors(builder', control_stack[2].destination) = {2}
         ]_vars

\* The whole example has been translated: the function holds the constant
\* 7, the jump of the br that carries it to the block's destination, and
\* the jump of the function's End from there to the exit block, which
\* carries the destination's parameter; nothing else.
C22_Witness ==
    /\ ~aborted
    /\ nops = 6
    /\ control_stack = <<>>
    /\ Len(builder.insts) = 3
    /\ builder.insts[1].opcode = "iconst"
    /\ builder.insts[1].imm = 7
    /\ builder.insts[2].opcode = "jump"
    /\ builder.insts[2].args = <<builder.insts[1].result>>
    /\ predecessors(builder, builder.insts[2].dest) = {2}
    /\ builder.insts[3].opcode = "jump"
    /\ builder.insts[3].ebb = builder.insts[2].dest
    /\ builder.insts[3].dest = ExitEbb
    /\ builder.insts[3].args = ebb_params(builder, builder.insts[2].dest)
    /\ Len(builder.insts[3].args) = 1

\* A step that translates an operator named op in reachable code without a
\* panic.
Reachable(op) ==
    /\ OperatorStep
    /\ dispatched' = "reachable"
    /\ last_op'.op = op
    /\ ~aborted'

\* The number of values a branch to frame F carries.
ArgsCount(F) == IF is_loop(F) THEN 0 ELSE F.num_return_values

\* The top n values of the operand stack, and the stack below them.
Top(n) == SubSeq(stack, Len(stack) - n + 1, Len(stack))

Below(n) == SubSeq(stack, 1, Len(stack) - n)

\* C23: a br k translated in reachable code marks the frame F that k names
\* reachable and changes no other frame, inserts one jump to F's branch
\* destination carrying the top args_count values, pops exactly these
\* values and sets the real depth to 1 + k.
C23_Br ==
    [][Reachable("Br") =>
        LET k == last_op'.arg
            i == TargetIndex(k)
            F == control_stack[i]
        IN /\ control_stack' = [control_stack EXCEPT ![i].reachable = TRUE]
           /\ Len(Inserted) = 1
           /\ Inserted[1].opcode = "jump"
           /\ Inserted[1].dest = br_destination(F)
           /\ Inserted[1].args = Top(ArgsCount(F))
           /\ stack' = Below(ArgsCount(F))
           /\ real_unreachable_stack_depth' = 1 + k
           /\ phantom_unreachable_stack_depth' = 0]_vars

\* A br 1 out of a construct has carried a value to the frame below it and
\* left a value on the operand stack.
C23_Witness ==
    /\ ~aborted
    /\ dispatched = "reachable"
    /\ last_op.op = "Br"
    /\ last_op.arg = 1
    /\ real_unreachable_stack_depth = 2
    /\ Len(stack) > 0
    /\ Len(Last(builder.insts).args) = 1
    /\ control_stack[Len(control_stack) - 1].reachable

\* C24: a br_if k translated in reachable code pops the condition and
\* nothing else, so that the values passed to the branch stay on the
\* operand stack; it inserts one brnz on the condition to the branch
\* destination of the frame F that k names, carrying the top args_count
\* values; F is marked reachable and no other frame changes; both depths
\* stay 0.
C24_BrIf ==
    [][Reachable("BrIf") =>
        LET k == last_op'.arg
            i == TargetIndex(k)
            F == control_stack[i]
            rest == Front(stack)
            n == ArgsCount(F)
        IN /\ stack' = rest
           /\ control_stack' = [control_stack EXCEPT ![i].reachable = TRUE]
           /\ Len(Inserted) = 1
           /\ Inserted[1].opcode = "brnz"
           /\ Inserted[1].dest = br_destination(F)
           /\ Inserted[1].args =
                 <<Last(stack)>> \o SubSeq(rest, Len(rest) - n + 1, Len(rest))
           /\ real_unreachable_stack_depth' = 0
           /\ phantom_unreachable_stack_depth' = 0
           /\ ~in_unreachable_code(State')]_vars

\* A br_if has passed a value to a frame and the value is still on top of
\* the operand stack.
C24_Witness ==
    /\ ~aborted
    /\ dispatched = "reachable"
    /\ last_op.op = "BrIf"
    /\ real_unreachable_stack_depth = 0
    /\ Len(stack) > 0
    /\ Last(builder.insts).opcode = "brnz"
    /\ Len(Last(builder.insts).args) = 2
    /\ Last(builder.insts).args[2] = Last(stack)
    /\ control_stack[Len(control_stack) - last_op.arg].reachable

\* The smallest of the default and the listed depths of the br_table being
\* read.
MinDepth == br_table_min_depth(last_op'.table, 1, last_op'.arg)

\* C25: a br_table translated in reachable code pops the selector and then
\* the args_count values, once whatever the number of targets, args_count
\* being that of the frame at the smallest of the default and the listed
\* depths (0 for a Loop); the real depth becomes 1 + that smallest depth,
\* with and without jump arguments.
C25_BrTable ==
    [][Reachable("BrTable") =>
        LET F == control_stack[TargetIndex(MinDepth)]
            n == ArgsCount(F)
        IN /\ n = JumpArgsCount
           /\ builder'.insts[BrTableInst].args = <<Last(stack)>>
           /\ stack' = SubSeq(stack, 1, Len(stack) - 1 - n)
           /\ Len(control_stack') = Len(control_stack)
           /\ real_unreachable_stack_depth' = 1 + MinDepth
           /\ phantom_unreachable_stack_depth' = 0]_vars

\* A br_table with a jump argument and two targets, the listed one nearer
\* than the default, has popped the selector and the argument and left the
\* real depth at one more than the listed depth.
C25_Witness ==
    /\ ~aborted
    /\ dispatched = "reachable"
    /\ last_op.op = "BrTable"
    /\ Len(last_op.table) = 1
    /\ last_op.table[1] < last_op.arg
    /\ real_unreachable_stack_depth = 1 + last_op.table[1]
    /\ stack = <<>>
    /\ \E j \in 1..Len(builder.insts) :
          /\ builder.insts[j].opcode = "jump"
          /\ builder.insts[j].args # <<>>
          /\ \E k \in (j + 1)..Len(builder.insts) :
                /\ builder.insts[k].opcode = "jump"
                /\ builder.insts[k].args = builder.insts[j].args
                /\ builder.insts[k].dest # builder.insts[j].dest

\* The Ebbs created by a step.
Created == (Len(builder.ebbs) + 1)..Len(builder'.ebbs)

\* C26: a br_table with jump arguments creates one block per distinct
\* listed depth; its jump table has one entry per listed depth, in table
\* order, which is the block of that depth, equal depths sharing theirs;
\* each of these blocks holds one instruction, a jump to the branch
\* destination of the frame at its depth that carries the args_count values
\* on top of the operand stack once the selector is popped.
C26_Trampolines ==
    [][(Reachable("BrTable") /\ JumpArgsCount > 0) =>
        LET depths == last_op'.table
            table == builder'.insts[BrTableInst].table
            rest == Front(stack)
            args == SubSeq(rest, Len(rest) - JumpArgsCount + 1, Len(rest))
        IN /\ Cardinality(Created) = Cardinality(Range(depths))
           /\ Range(table) = Created
           /\ Len(table) = Len(depths)
           /\ \A k, l \in 1..Len(depths) :
                 table[k] = table[l] <=> depths[k] = depths[l]
           /\ \A k \in 1..Len(depths) :
                 LET F == control_stack[TargetIndex(depths[k])]
                     body == EbbInsts(builder', table[k])
                 IN /\ Len(body) = 1
                    /\ body[1].opcode = "jump"
                    /\ body[1].dest = br_destination(F)
                    /\ body[1].args = args
                    /\ Len(args) = JumpArgsCount]_vars

\* A br_table with a jump argument that lists different depths has a block
\* of its own for each.
C26_Witness ==
    /\ ~aborted
    /\ dispatched = "reachable"
    /\ last_op.op = "BrTable"
    /\ Cardinality(Range(last_op.table)) = 2
    /\ \E j \in 1..Len(builder.insts) :
          /\ builder.insts[j].opcode = "br_table"
          /\ Cardinality(Range(builder.insts[j].table)) = 2
          /\ \A e \in Range(builder.insts[j].table) :
                /\ Len(EbbInsts(builder, e)) = 1
                /\ Len(EbbInsts(builder, e)[1].args) = 1

\* C27: a return translated in reachable code, however many constructs
\* are open, marks the outermost frame reachable and changes no other
\* frame, inserts a jump to the exit block if the environment's flag
\* return_at_end is set and a return instruction otherwise, either one
\* carrying the top num_return_values values of the outermost frame, pops
\* exactly these values and sets the real depth to 1.
C27_Return ==
    [][Reachable("Return") =>
        LET n == control_stack[1].num_return_values
        IN /\ control_stack' = [control_stack EXCEPT ![1].reachable = TRUE]
           /\ Len(Inserted) = 1
           /\ IF environ.return_at_end
              THEN /\ Inserted[1].opcode = "jump"
                   /\ Inserted[1].dest = ExitEbb
              ELSE Inserted[1].opcode = "return"
           /\ Inserted[1].args = Top(n)
           /\ n = normal_returns(sig)
           /\ stack' = Below(n)
           /\ real_unreachable_stack_depth' = 1
           /\ phantom_unreachable_stack_depth' = 0]_vars

\* A return inside two constructs, in a function that returns a value, of
\* an environment that wants the return at the end: a jump to the exit
\* block carries the value.
C27_Witness ==
    /\ ~aborted
    /\ dispatched = "reachable"
    /\ last_op.op = "Return"
    /\ environ.return_at_end
    /\ Len(control_stack) = 3
    /\ control_stack[1].reachable
    /\ real_unreachable_stack_depth = 1
    /\ Last(builder.insts).opcode = "jump"
    /\ Last(builder.insts).dest = ExitEbb
    /\ Len(Last(builder.insts).args) = 1

\* What an End translated in reachable code inserts, if anything: one jump
\* from the current block to the code that follows the popped frame, with
\* the top num_return_values values.
EndJump ==
    LET F == Last(control_stack)
    IN Inserted # <<>> =>
          /\ Len(Inserted) = 1
          /\ Inserted[1].opcode = "jump"
          /\ Inserted[1].ebb = builder.position
          /\ Inserted[1].dest = following_code(F)
          /\ Inserted[1].args = Top(F.num_return_values)

\* C28 as stated: an End translated in reachable code emits the jump
\* exactly when the current block is neither unreachable nor pristine.
C28_JumpUnlessEither ==
    [][Reachable("End") =>
        /\ EndJump
        /\ Inserted # <<>> <=>
              (~is_unreachable(builder) /\ ~is_pristine(builder))]_vars

\* C28 amended: the jump is left out only when the current block is both
\* unreachable and pristine; a pristine block that can be reached and an
\* unreachable block that holds instructions get the jump.
C28_JumpUnlessBoth ==
    [][Reachable("End") =>
        /\ EndJump
        /\ Inserted # <<>> <=>
              ~(is_unreachable(builder) /\ is_pristine(builder))]_vars

\* An End translated in reachable code has inserted its jump as the first
\* instruction of a block other than the entry block.
C28_Witness ==
    /\ ~aborted
    /\ dispatched = "reachable"
    /\ last_op.op = "End"
    /\ Last(builder.insts).opcode = "jump"
    /\ Last(builder.insts).ebb # EntryEbb
    /\ Len(EbbInsts(builder, Last(builder.insts).ebb)) = 1
    /\ predecessors(builder, Last(builder.insts).ebb) # {}

\* The blocks sealed by a step, each as many times as it was sealed.
SealedBy(e) == builder'.ebbs[e].sealed - builder.ebbs[e].sealed

\* C29: an End translated in reachable code pops one frame F, switches to
\* F's destination and seals it, seals the header too when F is a Loop and
\* no other block, and leaves on the operand stack its first
\* original_stack_size values, unchanged, followed by the parameters of
\* the destination; both unreachable depths stay 0.
C29_End ==
    [][Reachable("End") =>
        LET F == Last(control_stack)
        IN /\ control_stack' = Front(control_stack)
           /\ builder'.position = F.destination
           /\ Len(builder'.ebbs) = Len(builder.ebbs)
           /\ \A e \in 1..Len(builder.ebbs) :
                 SealedBy(e) =
                    IF \/ e = F.destination
                       \/ F.kind = "Loop" /\ e = F.header
                    THEN 1 ELSE 0
           /\ F.original_stack_size <= Len(stack)
           /\ stack' = SubSeq(stack, 1, F.original_stack_size)
                           \o ebb_params(builder', F.destination)
           /\ Len(ebb_params(builder', F.destination)) = F.num_return_values
           /\ real_unreachable_stack_depth' = 0
           /\ phantom_unreachable_stack_depth' = 0]_vars

\* The End of a Loop with a result has been translated in reachable code:
\* the value on top of the operand stack is the parameter of the block
\* now inserted at, above a value that was there before the loop.
C29_Witness ==
    /\ ~aborted
    /\ dispatched = "reachable"
    /\ last_op.op = "End"
    /\ Len(control_stack) >= 1
    /\ Len(stack) = 2
    /\ <<Last(stack)>> = ebb_params(builder, builder.position)
    /\ \E e \in 1..Len(builder.ebbs) :
          /\ builder.ebbs[e].sealed = 1
          /\ \E j \in 1..Len(builder.insts) :
                /\ builder.insts[j].ebb = e
                /\ builder.insts[j].dest = builder.position
          /\ \E j \in 1..Len(builder.insts) :
                /\ builder.insts[j].ebb = EntryEbb
                /\ builder.insts[j].dest = e

\* A step in which an End is read in unreachable code at phantom depth 0.
UnreachableFrameEnd ==
    /\ UnreachableStep
    /\ last_op'.op = "End"
    /\ phantom_unreachable_stack_depth = 0

\* C30: an End read in unreachable code at phantom depth 0 pops one frame
\* F; the real depth r becomes 0 if F is an If frame or is marked
\* reachable and r - 1 otherwise; the operand stack is cut to F's
\* original_stack_size and gets the parameters of F's destination exactly
\* when the real depth has become 0; the destination is switched to and
\* sealed and no instruction is inserted.
C30_UnreachableEnd ==
    [][UnreachableFrameEnd =>
        LET F == Last(control_stack)
            r == real_unreachable_stack_depth
            cut == SubSeq(stack, 1, min(Len(stack), F.original_stack_size))
        IN /\ control_stack' = Front(control_stack)
           /\ real_unreachable_stack_depth' =
                 IF F.kind = "If" \/ F.reachable THEN 0 ELSE r - 1
           /\ phantom_unreachable_stack_depth' = 0
           /\ stack' = IF real_unreachable_stack_depth' = 0
                       THEN cut \o ebb_params(builder', F.destination)
                       ELSE cut
           /\ builder'.position = F.destination
           /\ SealedBy(F.destination) = 1
           /\ builder'.insts = builder.insts]_vars

\* An End read in unreachable code has popped a frame that no branch
\* targets, whose destination has a parameter: the code stays unreachable
\* and the parameter is not on the operand stack.
C30_Witness ==
    /\ ~aborted
    /\ dispatched = "unreachable"
    /\ last_op.op = "End"
    /\ real_unreachable_stack_depth > 0
    /\ Len(control_stack) >= 1
    /\ builder.ebbs[builder.position].sealed = 1
    /\ Len(ebb_params(builder, builder.position)) = 1
    /\ \A j \in 1..Len(stack) :
          stack[j] \notin Range(ebb_params(builder, builder.position))

\* A step of the unreachable dispatcher other than the End or the Else of
\* a frame.
PhantomStep ==
    /\ UnreachableStep
    /\ ~(/\ last_op'.op \in {"End", "Else"}
         /\ phantom_unreachable_stack_depth = 0)

\* C31: in unreachable code an operator other than an End or Else read at
\* phantom depth 0 changes nothing but the phantom depth: not the operand
\* stack, the control stack, the real depth, the entity caches, the
\* function being built or the environment. Block, Loop and If raise the
\* phantom depth by 1, an End lowers it by 1, and every other operator,
\* an Else included, leaves it as it is.
C31_OnlyPhantomDepth ==
    [][PhantomStep =>
        /\ <<stack, control_stack, real_unreachable_stack_depth>>' =
              <<stack, control_stack, real_unreachable_stack_depth>>
        /\ <<globals, heaps, signatures, functions>>' =
              <<globals, heaps, signatures, functions>>
        /\ <<builder, environ>>' = <<builder, environ>>
        /\ phantom_unreachable_stack_depth' =
              CASE last_op'.op \in {"Block", "Loop", "If"} ->
                      phantom_unreachable_stack_depth + 1
                [] last_op'.op = "End" ->
                      phantom_unreachable_stack_depth - 1
                [] OTHER -> phantom_unreachable_stack_depth]_vars

\* A call read inside a construct opened in unreachable code: the function
\* it names has not been looked up.
C31_Witness ==
    /\ ~aborted
    /\ dispatched = "unreachable"
    /\ last_op.op = "Call"
    /\ phantom_unreachable_stack_depth > 0
    /\ functions[0].tag = "None"
    /\ \A i \in DOMAIN environ.calls.make_direct_func :
          environ.calls.make_direct_func[i] = 0

\* The one block a step has created.
ElseEbb == Len(builder.ebbs) + 1

\* What an Else does in the builder, in either dispatcher: it creates one
\* block, makes it the target of the branch recorded in the If frame F,
\* seals it and switches to it; no other block is sealed.
ElseBlock(F) ==
    /\ Created = {ElseEbb}
    /\ builder'.insts[F.branch_inst].dest = ElseEbb
    /\ builder.insts[F.branch_inst].opcode = "brz"
    /\ \A e \in 1..Len(builder.ebbs) : SealedBy(e) = 0
    /\ builder'.ebbs[ElseEbb].sealed = 1
    /\ builder'.ebbs[ElseEbb].params = <<>>
    /\ builder'.position = ElseEbb

\* C32: an Else read in unreachable code at phantom depth 0, the innermost
\* frame F being an If, sets the real depth to 0 whatever it was, cuts the
\* operand stack to F's original_stack_size, creates the else block,
\* retargets F's recorded branch to it, seals it and switches to it; it
\* inserts no instruction and leaves the control stack as it is.
C32_UnreachableElse ==
    [][(UnreachableStep /\ last_op'.op = "Else"
            /\ phantom_unreachable_stack_depth = 0) =>
        LET F == Last(control_stack)
        IN /\ F.kind = "If"
           /\ real_unreachable_stack_depth' = 0
           /\ phantom_unreachable_stack_depth' = 0
           /\ stack' = SubSeq(stack, 1,
                               min(Len(stack), F.original_stack_size))
           /\ ElseBlock(F)
           /\ builder'.insts =
                 [builder.insts EXCEPT ![F.branch_inst].dest = ElseEbb]
           /\ control_stack' = control_stack]_vars

\* A br 1 inside an If had left the real depth at 2; the Else of the If
\* has made the code reachable again, in the else block the brz now
\* targets.
C32_Witness ==
    /\ ~aborted
    /\ dispatched = "unreachable"
    /\ last_op.op = "Else"
    /\ exit_depth = 1
    /\ real_unreachable_stack_depth = 0
    /\ Last(control_stack).kind = "If"
    /\ builder.insts[Last(control_stack).branch_inst].dest = builder.position
    /\ builder.position = Len(builder.ebbs)

FrameEndStep ==
    /\ OperatorStep
    /\ last_op'.op = "End"
    /\ ~aborted'
    /\ dispatched' = "unreachable" => phantom_unreachable_stack_depth = 0

\* C34: right after an End that has popped a frame F of a valid body the
\* operand stack holds F.original_stack_size values, and the parameters of
\* F's destination above them if the code is reachable after the End;
\* these are as many as F returns values.
C34_DepthAfterEnd ==
    [][FrameEndStep =>
        LET F == Last(control_stack)
            params == ebb_params(builder', F.destination)
        IN /\ control_stack' = Front(control_stack)
           /\ Len(params) = F.num_return_values
           /\ Len(stack') =
                 IF real_unreachable_stack_depth' = 0
                 THEN F.original_stack_size + Len(params)
                 ELSE F.original_stack_size]_vars

\* An End read in unreachable code has popped a frame and made the code
\* reachable again; a constant the frame's code had left on the operand
\* stack, used by no instruction, is no longer there.
C34_Witness ==
    /\ ~aborted
    /\ dispatched = "unreachable"
    /\ last_op.op = "End"
    /\ real_unreachable_stack_depth = 0
    /\ Len(control_stack) >= 1
    /\ \E j \in 1..Len(builder.insts) :
          /\ builder.insts[j].opcode = "iconst"
          /\ builder.insts[j].result \notin Range(stack)
          /\ \A k \in 1..Len(builder.insts) :
                builder.insts[j].result \notin Range(builder.insts[k].args)

\* The real depth does not exceed the number of frames.
DepthWithinFrames == real_unreachable_stack_depth <= Len(control_stack)

\* A step in which an End is read in unreachable code at phantom depth 0,
\* whether or not it ends in a panic.
FrameEndRead ==
    /\ OperatorStep
    /\ dispatched' = "unreachable"
    /\ last_op'.op = "End"
    /\ phantom_unreachable_stack_depth = 0

\* C35 as stated: whatever operators are translated, as long as no branch
\* names a depth beyond the control stack (which ends in a panic), the real
\* depth does not exceed the number of frames; so an End read in
\* unreachable code at phantom depth 0 finds a frame to pop and a depth to
\* lower.
C35_DepthWithinFramesAlways ==
    /\ [](~aborted => DepthWithinFrames)
    /\ [][FrameEndRead =>
            /\ ~aborted'
            /\ real_unreachable_stack_depth' >= 0]_vars

\* C35 amended: an operator read while a frame is open keeps the real
\* depth within the number of frames, and an End read in unreachable code
\* at phantom depth 0 with the depth within the number of frames pops a
\* frame and lowers the depth without a panic. An operator read after the
\* End that closed the last frame is outside this: unreachable then sets
\* the depth to 1 with no frame open.
C35_DepthWithinOpenFrames ==
    /\ [][(OperatorStep /\ ~aborted' /\ control_stack # <<>>
            /\ DepthWithinFrames) => DepthWithinFrames']_vars
    /\ [][(FrameEndRead /\ DepthWithinFrames) =>
            /\ ~aborted'
            /\ Len(control_stack') = Len(control_stack) - 1
            /\ real_unreachable_stack_depth' >= 0
            /\ real_unreachable_stack_depth' <
                  real_unreachable_stack_depth]_vars

\* A branch to the outermost of two frames has set the real depth to the
\* number of frames, and the End of the inner one has lowered both by one.
C35_Witness ==
    /\ ~aborted
    /\ dispatched = "unreachable"
    /\ last_op.op = "End"
    /\ Len(control_stack) = 1
    /\ real_unreachable_stack_depth = 1

\* A step in which an operator pushes a control frame.
FramePushStep ==
    /\ OperatorStep
    /\ ~aborted'
    /\ Len(control_stack') = Len(control_stack) + 1

\* The frames present before and after a step.
KeptFrames == 1..min(Len(control_stack), Len(control_stack'))

\* The recorded sizes do not decrease from the bottom of the control stack
\* to its top.
SizesNonDecreasing ==
    \A i, j \in 1..Len(control_stack) :
        i <= j => control_stack[i].original_stack_size <=
                    control_stack[j].original_stack_size

\* C36: a pushed frame records the operand stack depth at the moment of the
\* push, which for an If is the depth after the condition was popped; the
\* recorded size of a frame never changes while the frame stays on the
\* control stack; and in a valid body the recorded sizes never decrease
\* from the bottom of the control stack to its top.
C36_OriginalStackSize ==
    /\ [][FramePushStep =>
            LET F == Last(control_stack')
            IN /\ control_stack' = Append(control_stack, F)
               /\ F.original_stack_size = Len(stack')
               /\ F.original_stack_size =
                     IF last_op'.op = "If" THEN Len(stack) - 1
                     ELSE Len(stack)]_vars
    /\ [][(OperatorStep /\ ~aborted') =>
            \A i \in KeptFrames :
                control_stack'[i].original_stack_size =
                    control_stack[i].original_stack_size]_vars
    /\ [](~aborted => SizesNonDecreasing)

\* A loop and an if have been opened over operands: the control stack
\* holds frames of different recorded sizes, the topmost one an If pushed
\* after its condition was popped.
C36_Witness ==
    /\ ~aborted
    /\ last_op.op = "If"
    /\ dispatched = "reachable"
    /\ Len(control_stack) >= 3
    /\ control_stack[2].kind = "Loop"
    /\ control_stack[2].original_stack_size >= 1
    /\ Last(control_stack).original_stack_size =
          control_stack[2].original_stack_size
    /\ Len(stack) = Last(control_stack).original_stack_size

\* A step of the unreachable dispatcher, whatever its outcome.
UnreachableRead ==
    /\ OperatorStep
    /\ dispatched' = "unreachable"

\* C37: an End read in unreachable code at phantom depth 0 lowers the real
\* depth, by one or to 0; no operator read in unreachable code raises it;
\* the translator leaves unreachable code only on an End or an Else read at
\* phantom depth 0; and after j such Ends since a branch set the depth to
\* N the depth is at most N - j, so that N of them are enough to be
\* reachable again. (The frames popped since the branch are counted by
\* exit_depth, the index of the branch's target frame.)
C37_DepthOnlyFalls ==
    /\ [][(FrameEndRead /\ ~aborted') =>
            /\ real_unreachable_stack_depth' < real_unreachable_stack_depth
            /\ real_unreachable_stack_depth' \in
                  {real_unreachable_stack_depth - 1, 0}]_vars
    /\ [][UnreachableRead =>
            real_unreachable_stack_depth' <=
                real_unreachable_stack_depth]_vars
    /\ [][(UnreachableRead /\ real_unreachable_stack_depth' = 0) =>
            /\ phantom_unreachable_stack_depth = 0
            /\ last_op'.op \in {"End", "Else"}]_vars
    /\ []((~aborted /\ real_unreachable_stack_depth > 0) =>
            real_unreachable_stack_depth <=
                Len(control_stack) - exit_depth)

\* A branch out of two frames has set the real depth to 2 and the End of
\* the inner frame has lowered it to 1: one more End is needed.
C37_Witness ==
    /\ ~aborted
    /\ dispatched = "unreachable"
    /\ last_op.op = "End"
    /\ phantom_unreachable_stack_depth = 0
    /\ real_unreachable_stack_depth = 1
    /\ exit_depth = 0
    /\ Len(control_stack) = 1
    /\ Last(control_stack).reachable

\* The size get_heap_addr gives to heap_addr for an offset, in the present
\* state.
CheckSizeOf(offset) ==
    get_heap_addr(State, 0, offset).s.builder.insts[
        Len(builder.insts) + 1].imm

\* C38: on a heap with a guard size G > 0, the check size of an access at
\* any offset is at least 1 and at most offset + 1, and the offset is below
\* check size + G: the first byte accessed is in the checked range or in
\* the guard that follows it. When 1 + (offset div G) * G fits a u32 the
\* check size leaves remainder 1 modulo G (0 when G is 1), and every
\* offset of the same multiple-of-G quantum gets the same check size.
C38_CheckSizeBounds ==
    [][(MemoryStep /\ environ.guard_size > 0) =>
        LET G == environ.guard_size
            offset == last_op'.arg
            check_size == Inserted[1].imm
        IN /\ ~aborted'
           /\ Inserted[1].opcode = "heap_addr"
           /\ check_size = CheckSizeOf(offset)
           /\ 1 <= check_size
           /\ check_size <= offset + 1
           /\ offset < check_size + G
           /\ 1 + (offset \div G) * G <= u32_max_value =>
                 check_size % G = 1 % G
           /\ \A other \in Offsets :
                 other \div G = offset \div G =>
                     CheckSizeOf(other) = check_size]_vars

\* A load at offset 6 on a heap with a guard size of 4: the size checked is
\* 5, below offset + 1, and the offset is within the guard behind it.
C38_Witness ==
    /\ ~aborted
    /\ last_op.op = "I32Load"
    /\ last_op.arg = 6
    /\ environ.guard_size = 4
    /\ \E j \in 1..Len(builder.insts) :
          /\ builder.insts[j].opcode = "heap_addr"
          /\ builder.insts[j].imm = 5

====
